---- MODULE Spec2Model ----
(***************************************************************************)
(* Verification model of the novotechno-collections coordination layer:    *)
(* the invoice state store (atomic write, per-key lock, event log,         *)
(* archive), the token-bucket rate limiter, the token validator, the       *)
(* reminder scheduler and the inter-agent message queue.                   *)
(*                                                                         *)
(* Each component has its own specification over its own variables; the    *)
(* variables of the other components stay unchanged.                       *)
(***************************************************************************)
EXTENDS Integers, Sequences, FiniteSets, TLC

(***************************************************************************)
(* Bounds                                                                  *)
(***************************************************************************)
MaxCalls == 3          \* store calls started in one behaviour
MaxFaults == 1         \* injected I/O failures in one behaviour
MaxCrashes == 1        \* process crashes (with restart) in one behaviour

Threads == {"t1", "t2"}
Keys == {"k1", "k2"}
Amounts == {1, 2}
Payments == {1}

(***************************************************************************)
(* State of the invoice state store (invoice_state.py)                     *)
(***************************************************************************)
VARIABLES
    enable_locking,   \* InvoiceState.enable_locking
    locks,            \* InvoiceState._locks: per state file "absent" | "free" | "held"
    fs,               \* the files of state_dir: path -> file
    pc,               \* per caller: position inside write_state / mark_paid
    op,               \* per caller: the public method being executed
    key,              \* per caller: the (client, invoice) argument
    wdata,            \* per caller: the dict handed to write_state / built by mark_paid
    pay,              \* per caller: payment_data of mark_paid
    phase,            \* per caller: "ws" inside write_state, "mp" in mark_paid's own body
    target,           \* per caller: file being written: "state" | "arch" | "log"
    existing,         \* per caller: _log_event's local `existing`
    entry,            \* per caller: _log_event's local `entry`
    fdloc,            \* per caller: where the inode of the open file handle lives
    pre,              \* per caller: final file as it was when the current write began
    exc,              \* per caller: exception in flight / raised by the call
    nextEv,           \* number of event ids generated so far
    calls,            \* calls started
    faults,           \* failures injected
    crashes           \* crashes so far

storeVars == <<enable_locking, locks, fs, pc, op, key, wdata, pay, phase, target,
               existing, entry, fdloc, pre, exc, nextEv, calls, faults, crashes>>

(***************************************************************************)
(* State of the rate limiter (rate_limiter.py)                             *)
(***************************************************************************)
VARIABLES
    now,                 \* time.time(), in whole seconds
    daily_tokens,        \* TokenBucketRateLimiter._daily_tokens
    daily_last_refill,   \* TokenBucketRateLimiter._daily_last_refill
    cycle_queue,         \* TokenBucketRateLimiter._cycle_queue
    cycle_window_start,  \* TokenBucketRateLimiter._cycle_window_start
    lpc,                 \* per caller of acquire(block=True): "idle" | "wait" | "sleep"
    wake,                \* per caller: the time its time.sleep(wait_time) ends
    acqAt,               \* history: successful acquisitions per second
    lastAcq              \* history: the limiter was last touched by an acquisition
                         \* that ended "ok" | "refused", or by something else ("none")

limVars == <<now, daily_tokens, daily_last_refill, cycle_queue, cycle_window_start,
             lpc, wake, acqAt, lastAcq>>

(***************************************************************************)
(* State of the token validator (token_validator.py) and its token cache   *)
(***************************************************************************)
VARIABLES
    degraded_mode,       \* TokenValidator.degraded_mode
    refresh_attempts,    \* TokenValidator.refresh_attempts
    cache,               \* the token cache: account -> [present, expires_at]
    vnow,                \* time.time() of the validator's process
    vpc,                 \* "idle", or "attempt" inside the loop of _silent_refresh
    vacct,               \* account_id of the call in progress
    vattempt,            \* loop variable `attempt` of _silent_refresh
    vlast,               \* history: latest operation and how it ended
    notices,             \* history: escalation notices emitted
    streak               \* history: failed attempts since the last successful
                         \* refresh or reset

valVars == <<degraded_mode, refresh_attempts, cache, vnow, vpc, vacct, vattempt,
             vlast, notices, streak>>

(***************************************************************************)
(* State of the reminder scheduler (scheduler.py) and its state manager    *)
(***************************************************************************)
VARIABLES
    snow,                \* the scheduler's clock, in half days
    due_date,            \* invoice -> due date, in half days
    unpaid,              \* invoice -> it is listed by get_all_unpaid()
    paused,              \* client -> is_paused(client)
    reminder_log,        \* invoice -> sequence of the rules recorded as sent
    failed_log,          \* invoice -> sequence of the rules recorded as failed
    last_result,         \* the dict returned by the latest send_reminders
    delivered,           \* history: <<invoice, rule>> -> sends that succeeded
    runs                 \* number of send_reminders runs so far

schedVars == <<snow, due_date, unpaid, paused, reminder_log, failed_log, last_result,
               delivered, runs>>

(***************************************************************************)
(* State of the inter-agent message queue (message_sender.py), for one     *)
(* recipient                                                               *)
(***************************************************************************)
VARIABLES
    mnow,                \* time.time() of the agents
    queue_file,          \* {recipient}.jsonl: [ex, lines]
    dedupe_file,         \* hash -> st_mtime of dedupe_{hash}.json, -1 if absent
    mpc,                 \* per agent: position inside send / receive
    mmsg,                \* per agent: the `message` argument of send
    mfd,                 \* per agent: the file opened for append is still
                         \* "linked" under its name, or an "orphan", or "none"
    messages,            \* per agent: the local list `messages` of receive
    accepted,            \* history: ids of the messages send has queued
    returned,            \* history: id -> number of receive calls that returned it
    nextMsg,             \* history: ids handed out so far
    sends,               \* send calls started
    sentAt,              \* history: hash -> times of the send calls that passed
                         \* the duplicate check
    receives             \* receive calls started

mqVars == <<mnow, queue_file, dedupe_file, mpc, mmsg, mfd, messages, accepted, returned,
            nextMsg, sends, receives,
            sentAt>>

(***************************************************************************)
(* State of the ledger (ledger.py)                                         *)
(***************************************************************************)
VARIABLES
    ledger_file,         \* the ledger file: its three sections and its Summary
    _totals,             \* Ledger._totals of the open Ledger object
    ledger_pc,           \* position inside add_invoice / mark_paid / escalate
    larg,                \* invoice_number and amount of the call in progress
    lres,                \* how the latest call ended
    lbefore,             \* history: the file when the call in progress began
    lafter,              \* history: the file the call in progress is to leave
    lops,                \* calls started
    lreopens             \* Ledger objects opened after the first

ledgerVars == <<ledger_file, _totals, ledger_pc, larg, lres, lbefore, lafter, lops, lreopens>>

(***************************************************************************)
(* State of one state file and its backup, as read_state sees them         *)
(* (invoice_state.py)                                                      *)
(***************************************************************************)
VARIABLES
    sfile,               \* {client}/{invoice}.json
    bfile,               \* {client}/{invoice}.json.bak
    rout,                \* what the latest read_state returned or raised
    rsteps               \* writes, backups and damages so far

readVars == <<sfile, bfile, rout, rsteps>>

(***************************************************************************)
(* The books: state records, the ledger's Unpaid section and total, and    *)
(* the payment notifications (payment_detector.py, ledger.py reconcile)    *)
(***************************************************************************)
VARIABLES
    book_state,          \* number -> the state record: where it is, status, amount
    book_unpaid,         \* the lines of the ledger's Unpaid section: <<number, amount>>
    book_paid,           \* the numbers listed in the ledger's Paid section
    book_total,          \* the ledger's _totals["unpaid"]
    payment_queue,       \* lines of ~/.cache/novotechno-collections/payment_queue.json
    mailbox,             \* lines of the scheduler's mailbox in the inter-agent queue
    book_last,           \* what the latest operation did
    book_steps           \* operations that wrote something, so far

bookVars == <<book_state, book_unpaid, book_paid, book_total, payment_queue, mailbox,
              book_last, book_steps>>

(***************************************************************************)
(* The supervisor's view of one agent (health_checker.py)                  *)
(***************************************************************************)
VARIABLES
    hnow,                \* minutes on the supervisor's clock
    last_heartbeat,      \* AgentHealthStatus.last_heartbeat, -1 for None
    hstatus,             \* AgentHealthStatus.status
    herrors,             \* length of AgentHealthStatus.errors
    hb_log,              \* heartbeats/{agent}.log: whether it exists, its lines
    hreport,             \* the status the latest check_all reported, and
                         \* whether it found the agent stale
    misses,              \* consecutive check_all runs that found the agent stale
    restart_tried,       \* _try_auto_restart calls since the last heartbeat
    escalations,         \* _escalate_agent_failure calls since the last heartbeat
    hsteps               \* checks and log lines so far

healthVars == <<hnow, last_heartbeat, hstatus, herrors, hb_log, hreport, misses,
                restart_tried, escalations, hsteps>>

(***************************************************************************)
(* A payment and the unpaid invoices it is matched against                 *)
(* (payment_checker.py)                                                    *)
(***************************************************************************)
VARIABLES
    pay_unpaid,          \* what state.get_all_unpaid() returns, in its order
    payment,             \* the amount, client and invoice number extracted
    matched              \* position in pay_unpaid of the invoice the latest
                         \* _find_matching_invoice returned, 0 for None,
                         \* -1 before a call

matchVars == <<pay_unpaid, payment, matched>>

(***************************************************************************)
(* The emailer's cycle: the scheduler with the sender of                   *)
(* scripts/collections-emailer.py                                          *)
(***************************************************************************)
VARIABLES
    em_invoices,         \* how many invoices have a reminder due today
    sent_count,          \* GraphEmailSender.sent_count
    em_delivered,        \* invoice -> reminders the sender accepted for it
    em_result,           \* what the latest send_reminders returned
    em_trace             \* the batches run and cycles waited, in order

emVars == <<em_invoices, sent_count, em_delivered, em_result, em_trace>>

(***************************************************************************)
(* One send of the Graph API sender: the retry loop of email_sender.py     *)
(***************************************************************************)
VARIABLES
    attempt,             \* the loop variable of _send_with_retry
    rt_posts,            \* calls of session.post made by this send
    rt_seen,             \* what each attempt got back, in order
    rt_waits,            \* seconds slept after each attempt (0: no sleep)
    rt_out,              \* "running", "sent" or the message of the exception
    rt_calls             \* sends started so far

retryVars == <<attempt, rt_posts, rt_seen, rt_waits, rt_out, rt_calls>>

(***************************************************************************)
(* The payment watcher's handler (payment_detector.py) with the            *)
(* confidence checker of payment_checker.py                                *)
(***************************************************************************)
VARIABLES
    pd_now,              \* time.time(), in seconds
    recent_files,        \* PaymentEventHandler.recent_files: file -> time, -1: absent
    pd_unpaid,           \* what state.get_all_unpaid() returns
    pd_events,           \* the store's event log, as [invoice, ev] entries
    pd_notified,         \* invoices _notify_emailer was called for
    pd_logged,           \* levels of the handler's logger records, in order
    pd_trace             \* one record per _process_payment_file call

pdVars == <<pd_now, recent_files, pd_unpaid, pd_events, pd_notified, pd_logged, pd_trace>>

vars == <<storeVars, limVars, valVars, schedVars, mqVars, ledgerVars, readVars, bookVars,
          healthVars, matchVars, emVars,
          retryVars,
          pdVars>>

nonStore == <<limVars, valVars, schedVars, mqVars, ledgerVars, readVars, bookVars,
    healthVars, matchVars, emVars,
    retryVars,
    pdVars>>
nonLim == <<storeVars, valVars, schedVars, mqVars, ledgerVars, readVars, bookVars,
    healthVars, matchVars, emVars,
    retryVars,
    pdVars>>
nonVal == <<storeVars, limVars, schedVars, mqVars, ledgerVars, readVars, bookVars,
    healthVars, matchVars, emVars,
    retryVars,
    pdVars>>
nonSched == <<storeVars, limVars, valVars, mqVars, ledgerVars, readVars, bookVars,
    healthVars, matchVars, emVars,
    retryVars,
    pdVars>>
nonMq == <<storeVars, limVars, valVars, schedVars, ledgerVars, readVars, bookVars,
    healthVars, matchVars, emVars,
    retryVars,
    pdVars>>
nonLedger == <<storeVars, limVars, valVars, schedVars, mqVars, readVars, bookVars,
    healthVars, matchVars, emVars,
    retryVars,
    pdVars>>
nonRead == <<storeVars, limVars, valVars, schedVars, mqVars, ledgerVars, bookVars,
    healthVars, matchVars, emVars,
    retryVars,
    pdVars>>
nonBooks == <<storeVars, limVars, valVars, schedVars, mqVars, ledgerVars, readVars,
    healthVars, matchVars, emVars,
    retryVars,
    pdVars>>
nonHealth == <<storeVars, limVars, valVars, schedVars, mqVars, ledgerVars, readVars,
    bookVars, matchVars, emVars,
    retryVars,
    pdVars>>
nonMatch == <<storeVars, limVars, valVars, schedVars, mqVars, ledgerVars, readVars,
    bookVars, healthVars, emVars,
    retryVars,
    pdVars>>
nonEm == <<storeVars, limVars, valVars, schedVars, mqVars, ledgerVars, readVars,
    bookVars, healthVars, matchVars,
    retryVars,
    pdVars>>
nonRetry == <<storeVars, limVars, valVars, schedVars, mqVars, ledgerVars, readVars, bookVars, healthVars, matchVars, emVars,
    pdVars>>
nonPd == <<storeVars, limVars, valVars, schedVars, mqVars, ledgerVars, readVars, bookVars, healthVars, matchVars, emVars, retryVars>>

(***************************************************************************)
(* Records and files                                                       *)
(***************************************************************************)
\* the invoice fields of a state record (no underscore fields)
NoData == [status |-> "none", amount |-> 0, paid_at |-> 0, payment |-> 0]

\* _compute_checksum: digest of the canonical JSON of the non-underscore
\* fields; the digest is modelled as the tuple of those fields
_compute_checksum(d) == <<d.status, d.amount, d.paid_at, d.payment>>

NoCks == <<"none", 0, 0, 0>>

NoEntry == [key |-> "none", ev |-> "none", id |-> 0]

Complete == 2   \* a file whose every chunk has been written

NoFile == [ex |-> FALSE, d |-> NoData, has_cks |-> FALSE, cks |-> NoCks,
           lines |-> <<>>, parts |-> 0, torn |-> FALSE, owner |-> "none"]

StateKinds == {"state", "stmp", "arch", "atmp"}
LogPath == <<"log", "_">>
LogTmp == <<"logtmp", "_">>
Paths == (StateKinds \X Keys) \cup {LogPath, LogTmp}

\* final path and sibling temporary of the file a caller is writing
FinalPath(t) ==
    IF target[t] = "state" THEN <<"state", key[t]>>
    ELSE IF target[t] = "arch" THEN <<"arch", key[t]>>
    ELSE LogPath

TmpPath(t) ==
    IF target[t] = "state" THEN <<"stmp", key[t]>>
    ELSE IF target[t] = "arch" THEN <<"atmp", key[t]>>
    ELSE LogTmp

\* what a reader of a path sees: nothing, a parseable file, or garbage
Readable(f) == f.ex /\ f.parts = Complete /\ ~f.torn

(***************************************************************************)
(* Helpers over the per-caller locals                                      *)
(***************************************************************************)
Set1(f, t, v) == [f EXCEPT ![t] = v]

FinalOf(tgt, k) ==
    IF tgt = "state" THEN <<"state", k>>
    ELSE IF tgt = "arch" THEN <<"arch", k>>
    ELSE LogPath

\* path at which the inode of t's open file handle currently lives
InodePath(t) == IF fdloc[t] = "tmp" THEN TmpPath(t) ELSE FinalPath(t)

\* the bytes t is writing: write_state dumps data plus _checksum, mark_paid
\* dumps its `data` (read_state has popped _checksum from it), _log_event
\* writes the lines it read followed by the new entry
Payload(t) ==
    IF target[t] = "state"
    THEN [NoFile EXCEPT !.ex = TRUE, !.d = wdata[t], !.has_cks = TRUE,
                        !.cks = _compute_checksum(wdata[t])]
    ELSE IF target[t] = "arch"
    THEN [NoFile EXCEPT !.ex = TRUE, !.d = wdata[t]]
    ELSE [NoFile EXCEPT !.ex = TRUE, !.lines = Append(existing[t], entry[t])]

\* the file after t has written chunk n of its payload through its handle
Written(f, t, n) ==
    IF f.owner = t
    THEN [Payload(t) EXCEPT !.parts = n, !.torn = f.torn, !.owner = t,
                            !.lines = IF target[t] = "log" /\ n < Complete
                                      THEN existing[t] ELSE Payload(t).lines]
    ELSE [f EXCEPT !.torn = TRUE]

\* fs after t's handle wrote chunk n (a handle on an unlinked inode shows nothing)
FsAfterWrite(t, n) ==
    IF fdloc[t] \in {"tmp", "final"}
    THEN [fs EXCEPT ![InodePath(t)] = Written(fs[InodePath(t)], t, n)]
    ELSE fs

\* fs after t's handle is closed
FsAfterClose(g, t) ==
    IF fdloc[t] \in {"tmp", "final"} /\ g[InodePath(t)].owner = t
    THEN [g EXCEPT ![InodePath(t)].owner = "none"]
    ELSE g

\* where the other callers' open handles live after t renamed tmp over final
FdAfterMove(t) ==
    [u \in Threads |->
        IF u = t THEN "none"
        ELSE IF fdloc[u] = "tmp" /\ TmpPath(u) = TmpPath(t) THEN "final"
        ELSE IF fdloc[u] = "final" /\ FinalPath(u) = FinalPath(t) THEN "orphan"
        ELSE fdloc[u]]

\* ... and after t unlinked path p
FdAfterUnlink(t, p) ==
    [u \in Threads |->
        IF u = t THEN "none"
        ELSE IF fdloc[u] \in {"tmp", "final"} /\ InodePath(u) = p THEN "orphan"
        ELSE fdloc[u]]

\* read_state(client, invoice, verify_checksum=True)
read_state(k) ==
    LET f == fs[<<"state", k>>] IN
    IF ~f.ex THEN [res |-> "none", d |-> NoData]
    ELSE IF ~Readable(f) THEN [res |-> "corrupt", d |-> NoData]
    ELSE IF f.has_cks /\ f.cks # _compute_checksum(f.d)
         THEN [res |-> "corrupt", d |-> NoData]
    ELSE [res |-> "ok", d |-> f.d]

(***************************************************************************)
(* Initial state of the store: empty state_dir, no caller active           *)
(***************************************************************************)
\* the store as constructed with InvoiceState(state_dir, enable_locking=l)
StoreInitWith(l) ==
    /\ enable_locking = l
    /\ locks = [k \in Keys |-> "absent"]
    /\ fs = [p \in Paths |-> NoFile]
    /\ pc = [t \in Threads |-> "idle"]
    /\ op = [t \in Threads |-> "none"]
    /\ key = [t \in Threads |-> "none"]
    /\ wdata = [t \in Threads |-> NoData]
    /\ pay = [t \in Threads |-> 0]
    /\ phase = [t \in Threads |-> "none"]
    /\ target = [t \in Threads |-> "none"]
    /\ existing = [t \in Threads |-> <<>>]
    /\ entry = [t \in Threads |-> NoEntry]
    /\ fdloc = [t \in Threads |-> "none"]
    /\ pre = [t \in Threads |-> NoFile]
    /\ exc = [t \in Threads |-> "none"]
    /\ nextEv = 0
    /\ calls = 0
    /\ faults = 0
    /\ crashes = 0

StoreInit == \E l \in BOOLEAN : StoreInitWith(l)

\* the store while another component is examined
StoreQuiet == StoreInitWith(TRUE)

counters == <<nextEv, calls, faults, crashes>>

(***************************************************************************)
(* Entry points                                                            *)
(***************************************************************************)
\* write_state(client, invoice, data): lines 128-129, before the try
CallWriteState(t, k, a) ==
    /\ pc[t] = "idle"
    /\ calls < MaxCalls
    /\ calls' = calls + 1
    /\ op' = Set1(op, t, "write_state")
    /\ key' = Set1(key, t, k)
    /\ wdata' = Set1(wdata, t, [NoData EXCEPT !.status = "unpaid", !.amount = a])
    /\ phase' = Set1(phase, t, "ws")
    /\ pc' = Set1(pc, t, "ws_acquire")
    /\ UNCHANGED nonStore
    /\ UNCHANGED <<enable_locking, locks, fs, pay, target, existing, entry, fdloc,
                   pre, exc, nextEv, faults, crashes>>

\* mark_paid(client, invoice, payment_data): the existence check before the try
CallMarkPaid(t, k, p) ==
    /\ pc[t] = "idle"
    /\ calls < MaxCalls
    /\ calls' = calls + 1
    /\ op' = Set1(op, t, "mark_paid")
    /\ key' = Set1(key, t, k)
    /\ pay' = Set1(pay, t, p)
    /\ phase' = Set1(phase, t, "mp")
    /\ IF fs[<<"state", k>>].ex
       THEN /\ pc' = Set1(pc, t, "mp_acquire")
            /\ exc' = exc
       ELSE /\ pc' = Set1(pc, t, "done")
            /\ exc' = Set1(exc, t, "StateFileNotFound")
    /\ UNCHANGED nonStore
    /\ UNCHANGED <<enable_locking, locks, fs, wdata, target, existing, entry, fdloc,
                   pre, nextEv, faults, crashes>>

(***************************************************************************)
(* _acquire_lock / _release_lock                                           *)
(***************************************************************************)
\* may the caller take the lock of key k?  (lock.acquire(blocking=False))
LockGranted(k) == ~enable_locking \/ locks[k] # "held"

LocksAfterAcquire(k) ==
    IF enable_locking THEN [locks EXCEPT ![k] = "held"] ELSE locks

\* does lock.release() raise RuntimeError (release of an unlocked lock)?
ReleaseRaises(k) == enable_locking /\ locks[k] = "free"

LocksAfterRelease(k) ==
    IF enable_locking /\ locks[k] = "held" THEN [locks EXCEPT ![k] = "free"] ELSE locks

\* write_state line 133: self._acquire_lock(state_file), first statement of the try
WsAcquire(t) ==
    /\ pc[t] = "ws_acquire"
    /\ IF LockGranted(key[t])
       THEN /\ locks' = LocksAfterAcquire(key[t])
            /\ target' = Set1(target, t, "state")
            /\ pre' = Set1(pre, t, fs[<<"state", key[t]>>])
            /\ pc' = Set1(pc, t, "fw_open")
            /\ exc' = exc
       ELSE /\ exc' = Set1(exc, t, "StateLockError")
            /\ pc' = Set1(pc, t, "ws_finally")
            /\ UNCHANGED <<locks, target, pre>>
    /\ UNCHANGED nonStore
    /\ UNCHANGED <<enable_locking, fs, op, key, wdata, pay, phase, existing, entry,
                   fdloc, counters>>

\* mark_paid line 240: self._acquire_lock(state_file)
MpAcquire(t) ==
    /\ pc[t] = "mp_acquire"
    /\ IF LockGranted(key[t])
       THEN /\ locks' = LocksAfterAcquire(key[t])
            /\ pc' = Set1(pc, t, "mp_read")
            /\ exc' = exc
       ELSE /\ exc' = Set1(exc, t, "StateLockError")
            /\ pc' = Set1(pc, t, "mp_finally")
            /\ locks' = locks
    /\ UNCHANGED nonStore
    /\ UNCHANGED <<enable_locking, fs, op, key, wdata, pay, phase, target, existing,
                   entry, fdloc, pre, counters>>

\* write_state's finally: self._release_lock(state_file); then the call
\* returns, or mark_paid goes on after its nested write_state
WsFinally(t) ==
    /\ pc[t] = "ws_finally"
    /\ locks' = LocksAfterRelease(key[t])
    /\ LET e == IF ReleaseRaises(key[t]) THEN "RuntimeError" ELSE exc[t] IN
       /\ exc' = Set1(exc, t, e)
       /\ IF op[t] = "write_state"
          THEN /\ pc' = Set1(pc, t, "done")
               /\ UNCHANGED <<phase, target, pre>>
          ELSE IF e = "none"
          THEN /\ phase' = Set1(phase, t, "mp")
               /\ target' = Set1(target, t, "arch")
               /\ pre' = Set1(pre, t, fs[<<"arch", key[t]>>])
               /\ pc' = Set1(pc, t, "fw_open")
          ELSE /\ phase' = Set1(phase, t, "mp")
               /\ pc' = Set1(pc, t, "mp_finally")
               /\ UNCHANGED <<target, pre>>
    /\ UNCHANGED nonStore
    /\ UNCHANGED <<enable_locking, fs, op, key, wdata, pay, existing, entry, fdloc,
                   counters>>

\* mark_paid's finally
MpFinally(t) ==
    /\ pc[t] = "mp_finally"
    /\ locks' = LocksAfterRelease(key[t])
    /\ exc' = Set1(exc, t, IF ReleaseRaises(key[t]) THEN "RuntimeError" ELSE exc[t])
    /\ pc' = Set1(pc, t, "done")
    /\ UNCHANGED nonStore
    /\ UNCHANGED <<enable_locking, fs, op, key, wdata, pay, phase, target, existing,
                   entry, fdloc, pre, counters>>

(***************************************************************************)
(* atomic_write (state and archive files) and the temp-write-rename part   *)
(* of _log_event, step by step                                             *)
(***************************************************************************)
WriteLabels == {"fw_open", "fw_write1", "fw_write2", "fw_chmod", "fw_move"}

\* open(tmp_path, 'w'): creates the temporary, or truncates the one found there
FwOpen(t) ==
    /\ pc[t] = "fw_open"
    /\ fs' = [fs EXCEPT ![TmpPath(t)] = [NoFile EXCEPT !.ex = TRUE, !.owner = t]]
    /\ fdloc' = Set1(fdloc, t, "tmp")
    /\ pc' = Set1(pc, t, "fw_write1")
    /\ UNCHANGED nonStore
    /\ UNCHANGED <<enable_locking, locks, op, key, wdata, pay, phase, target, existing,
                   entry, pre, exc, counters>>

\* json.dump(state_data, f) / f.write(existing): part of the bytes reach the file
FwWrite1(t) ==
    /\ pc[t] = "fw_write1"
    /\ fs' = FsAfterWrite(t, 1)
    /\ pc' = Set1(pc, t, "fw_write2")
    /\ UNCHANGED nonStore
    /\ UNCHANGED <<enable_locking, locks, op, key, wdata, pay, phase, target, existing,
                   entry, fdloc, pre, exc, counters>>

\* the rest of the bytes, f.write("\n") / the new entry, flush, fsync and close
FwWrite2(t) ==
    /\ pc[t] = "fw_write2"
    /\ fs' = FsAfterClose(FsAfterWrite(t, Complete), t)
    /\ fdloc' = Set1(fdloc, t, "none")
    /\ pc' = Set1(pc, t, IF target[t] = "log" THEN "fw_move" ELSE "fw_chmod")
    /\ UNCHANGED nonStore
    /\ UNCHANGED <<enable_locking, locks, op, key, wdata, pay, phase, target, existing,
                   entry, pre, exc, counters>>

\* tmp_path.chmod(0o600): raises when the temporary is gone
FwChmod(t) ==
    /\ pc[t] = "fw_chmod"
    /\ pc' = Set1(pc, t, IF fs[TmpPath(t)].ex THEN "fw_move" ELSE "fw_except")
    /\ UNCHANGED nonStore
    /\ UNCHANGED <<enable_locking, locks, fs, op, key, wdata, pay, phase, target,
                   existing, entry, fdloc, pre, exc, counters>>

\* where a caller continues after its file has been renamed into place
AfterMove(t) ==
    IF target[t] = "state" THEN "le_begin"
    ELSE IF target[t] = "arch" THEN "mp_unlink"
    ELSE IF phase[t] = "ws" THEN "ws_finally"
    ELSE "mp_finally"

\* shutil.move(tmp, final): the rename; raises when the temporary is gone
FwMove(t) ==
    /\ pc[t] = "fw_move"
    /\ IF fs[TmpPath(t)].ex
       THEN /\ fs' = [fs EXCEPT ![FinalPath(t)] = fs[TmpPath(t)],
                                ![TmpPath(t)] = NoFile]
            /\ fdloc' = FdAfterMove(t)
            /\ pc' = Set1(pc, t, AfterMove(t))
       ELSE /\ pc' = Set1(pc, t, "fw_except")
            /\ UNCHANGED <<fs, fdloc>>
    /\ UNCHANGED nonStore
    /\ UNCHANGED <<enable_locking, locks, op, key, wdata, pay, phase, target, existing,
                   entry, pre, exc, counters>>

\* an I/O error raised by any of the steps above (the with-block closes the file)
FwFail(t) ==
    /\ pc[t] \in WriteLabels
    /\ faults < MaxFaults
    /\ faults' = faults + 1
    /\ fs' = FsAfterClose(fs, t)
    /\ fdloc' = Set1(fdloc, t, "none")
    /\ pc' = Set1(pc, t, "fw_except")
    /\ UNCHANGED nonStore
    /\ UNCHANGED <<enable_locking, locks, op, key, wdata, pay, phase, target, existing,
                   entry, pre, exc, nextEv, calls, crashes>>

\* (mutant) an except clause that leaves the temporary behind
FsAfterCleanup_NoUnlink(t) == fs

\* the file after the except clause: `if tmp.exists(): tmp.unlink()`
FsAfterCleanup(t) == [fs EXCEPT ![TmpPath(t)] = NoFile]

\* except clause of atomic_write / _log_event: remove the temporary, re-raise
FwExcept(t) ==
    /\ pc[t] = "fw_except"
    /\ fs' = FsAfterCleanup(t)
    /\ fdloc' = IF fs[TmpPath(t)].ex THEN FdAfterUnlink(t, TmpPath(t)) ELSE fdloc
    /\ exc' = Set1(exc, t, IF target[t] = "log" THEN "LogAppendError" ELSE "WriteError")
    /\ pc' = Set1(pc, t, IF phase[t] = "ws" THEN "ws_finally" ELSE "mp_finally")
    /\ UNCHANGED nonStore
    /\ UNCHANGED <<enable_locking, locks, op, key, wdata, pay, phase, target, existing,
                   entry, pre, counters>>

(***************************************************************************)
(* _log_event: build the entry and read the existing log                   *)
(***************************************************************************)
EventType(t) == IF phase[t] = "ws" THEN "state_update" ELSE "paid"

LogBegin(t) ==
    /\ pc[t] = "le_begin"
    /\ nextEv' = nextEv + 1
    /\ entry' = Set1(entry, t, [key |-> key[t], ev |-> EventType(t), id |-> nextEv + 1])
    /\ existing' = Set1(existing, t, IF fs[LogPath].ex THEN fs[LogPath].lines ELSE <<>>)
    /\ target' = Set1(target, t, "log")
    /\ pre' = Set1(pre, t, fs[LogPath])
    /\ pc' = Set1(pc, t, "fw_open")
    /\ UNCHANGED nonStore
    /\ UNCHANGED <<enable_locking, locks, fs, op, key, wdata, pay, phase, fdloc, exc,
                   calls, faults, crashes>>

(***************************************************************************)
(* mark_paid's own steps                                                   *)
(***************************************************************************)
\* lines 243-250: read_state, set status/paid_at/payment, enter write_state
MpRead(t) ==
    /\ pc[t] = "mp_read"
    /\ LET r == read_state(key[t]) IN
       IF r.res = "ok"
       THEN /\ wdata' = Set1(wdata, t, [r.d EXCEPT !.status = "paid", !.paid_at = 1,
                                                   !.payment = pay[t]])
            /\ phase' = Set1(phase, t, "ws")
            /\ pc' = Set1(pc, t, "ws_acquire")
            /\ exc' = exc
       ELSE /\ exc' = Set1(exc, t, IF r.res = "none" THEN "TypeError"
                                   ELSE "StateCorruptionError")
            /\ pc' = Set1(pc, t, "mp_finally")
            /\ UNCHANGED <<wdata, phase>>
    /\ UNCHANGED nonStore
    /\ UNCHANGED <<enable_locking, locks, fs, op, key, pay, target, existing, entry,
                   fdloc, pre, counters>>

\* line 264: state_file.unlink()
MpUnlink(t) ==
    /\ pc[t] = "mp_unlink"
    /\ IF fs[<<"state", key[t]>>].ex
       THEN /\ fs' = [fs EXCEPT ![<<"state", key[t]>>] = NoFile]
            /\ fdloc' = FdAfterUnlink(t, <<"state", key[t]>>)
            /\ pc' = Set1(pc, t, "le_begin")
            /\ exc' = exc
       ELSE /\ exc' = Set1(exc, t, "FileNotFoundError")
            /\ pc' = Set1(pc, t, "mp_finally")
            /\ UNCHANGED <<fs, fdloc>>
    /\ UNCHANGED nonStore
    /\ UNCHANGED <<enable_locking, locks, op, key, wdata, pay, phase, target, existing,
                   entry, pre, counters>>

(***************************************************************************)
(* Return to the caller, and process crash                                 *)
(***************************************************************************)
Return(t) ==
    /\ pc[t] = "done"
    /\ pc' = Set1(pc, t, "idle")
    /\ op' = Set1(op, t, "none")
    /\ key' = Set1(key, t, "none")
    /\ wdata' = Set1(wdata, t, NoData)
    /\ pay' = Set1(pay, t, 0)
    /\ phase' = Set1(phase, t, "none")
    /\ target' = Set1(target, t, "none")
    /\ existing' = Set1(existing, t, <<>>)
    /\ entry' = Set1(entry, t, NoEntry)
    /\ pre' = Set1(pre, t, NoFile)
    /\ exc' = Set1(exc, t, "none")
    /\ UNCHANGED nonStore
    /\ UNCHANGED <<enable_locking, locks, fs, fdloc, counters>>

\* the process dies between two steps and is started again: files stay as
\* they are, open handles and the in-memory lock table are gone
Crash ==
    /\ crashes < MaxCrashes
    /\ \E t \in Threads : pc[t] \notin {"idle", "done"}
    /\ crashes' = crashes + 1
    /\ locks' = [k \in Keys |-> "absent"]
    /\ fs' = [p \in Paths |-> [fs[p] EXCEPT !.owner = "none"]]
    /\ pc' = [t \in Threads |-> "idle"]
    /\ op' = [t \in Threads |-> "none"]
    /\ key' = [t \in Threads |-> "none"]
    /\ wdata' = [t \in Threads |-> NoData]
    /\ pay' = [t \in Threads |-> 0]
    /\ phase' = [t \in Threads |-> "none"]
    /\ target' = [t \in Threads |-> "none"]
    /\ existing' = [t \in Threads |-> <<>>]
    /\ entry' = [t \in Threads |-> NoEntry]
    /\ fdloc' = [t \in Threads |-> "none"]
    /\ pre' = [t \in Threads |-> NoFile]
    /\ exc' = [t \in Threads |-> "none"]
    /\ UNCHANGED nonStore
    /\ UNCHANGED <<enable_locking, nextEv, calls, faults>>

StoreStep(t) ==
    \/ \E k \in Keys, a \in Amounts : CallWriteState(t, k, a)
    \/ \E k \in Keys, p \in Payments : CallMarkPaid(t, k, p)
    \/ WsAcquire(t)
    \/ MpAcquire(t)
    \/ MpRead(t)
    \/ FwOpen(t)
    \/ FwWrite1(t)
    \/ FwWrite2(t)
    \/ FwChmod(t)
    \/ FwMove(t)
    \/ FwExcept(t)
    \/ LogBegin(t)
    \/ MpUnlink(t)
    \/ WsFinally(t)
    \/ MpFinally(t)
    \/ Return(t)

\* callers of one process, interleaved at every step
StoreNext == \E t \in Threads : StoreStep(t)

\* one caller at a time, with I/O failures and crashes at every step
Caller == "t1"
SeqNext == StoreStep(Caller) \/ FwFail(Caller) \/ Crash

(***************************************************************************)
(* Claims about the state store                                            *)
(***************************************************************************)
\* caller t is inside the read-modify-write of key k: it has passed the
\* _acquire_lock of write_state or mark_paid and not yet reached the finally
Inside(t, k) ==
    /\ key[t] = k
    /\ \/ pc[t] \in WriteLabels \cup {"fw_except", "le_begin", "mp_read", "mp_unlink"}
       \/ pc[t] = "ws_acquire" /\ op[t] = "mark_paid"

\* C1: with locking enabled, at most one caller is inside the
\* read-modify-write of any one invoice key at any time
C1_MutualExclusion ==
    enable_locking =>
        \A k \in Keys : Cardinality({t \in Threads : Inside(t, k)}) <= 1

\* the `paid` events in the log that are the entry built by caller t
PaidEventsOf(t) ==
    {i \in 1..Len(fs[LogPath].lines) :
        fs[LogPath].lines[i] = entry[t] /\ entry[t].ev = "paid"}

\* C2: a mark_paid of an invoice with an active state file completes
\* successfully (locking enabled or not, no I/O failure); afterwards the
\* active copy is gone, the archive holds the record with status paid and
\* non-null paid_at and payment, and one `paid` event has been appended
C2_MarkPaidCompletes ==
    \A t \in Threads :
        (/\ pc[t] = "done" /\ op[t] = "mark_paid"
         /\ exc[t] # "StateFileNotFound"
         /\ faults = 0 /\ crashes = 0)
        => /\ exc[t] = "none"
           /\ ~fs[<<"state", key[t]>>].ex
           /\ Readable(fs[<<"arch", key[t]>>])
           /\ fs[<<"arch", key[t]>>].d.status = "paid"
           /\ fs[<<"arch", key[t]>>].d.paid_at # 0
           /\ fs[<<"arch", key[t]>>].d.payment # 0
           /\ Cardinality(PaidEventsOf(t)) = 1

\* C13: a mark_paid of an invoice that is already paid and archived (no
\* active state file, a paid record in the archive) succeeds as a no-op
C13_MarkPaidIdempotent ==
    \A t \in Threads :
        (/\ pc[t] = "done" /\ op[t] = "mark_paid"
         /\ ~fs[<<"state", key[t]>>].ex
         /\ Readable(fs[<<"arch", key[t]>>])
         /\ fs[<<"arch", key[t]>>].d.status = "paid"
         /\ faults = 0 /\ crashes = 0)
        => exc[t] = "none"

\* C14: every state record at rest, active or archived, carries a _checksum
\* that is the digest of its non-underscore fields
C14_ChecksumAtRest ==
    \A k \in Keys : \A kind \in {"state", "arch"} :
        Readable(fs[<<kind, k>>]) =>
            /\ fs[<<kind, k>>].has_cks
            /\ fs[<<kind, k>>].cks = _compute_checksum(fs[<<kind, k>>].d)

\* the complete file a caller's write puts at its final path
NewFile(t) == [Payload(t) EXCEPT !.parts = Complete]

\* C3: partial writes are never observable: every final path holds a
\* complete file at every step; while a write is in progress (or has
\* failed) the final path holds the previous file and once it has been
\* renamed the new one; after a write that ended in an error the temporary
\* is removed and the final path is as it was
C3_NoPartialWrite ==
    /\ \A p \in Paths \ ((({"stmp", "atmp"}) \X Keys) \cup {LogTmp}) :
          fs[p].ex => Readable(fs[p])
    /\ \A t \in Threads :
          /\ pc[t] \in WriteLabels \cup {"fw_except"} => fs[FinalPath(t)] = pre[t]
          /\ (pc[t] \in {"le_begin", "mp_unlink"}
              \/ (pc[t] \in {"ws_finally", "mp_finally"} /\ target[t] = "log"
                  /\ exc[t] = "none"))
             => fs[FinalPath(t)] = NewFile(t)
          /\ (pc[t] \in {"ws_finally", "mp_finally"}
              /\ exc[t] \in {"WriteError", "LogAppendError"})
             => /\ ~fs[TmpPath(t)].ex
                /\ fs[FinalPath(t)] = pre[t]

\* a state write over an existing record has failed and is being unwound
C3_Witness ==
    /\ pc[Caller] = "ws_finally" /\ exc[Caller] = "WriteError"
    /\ target[Caller] = "state" /\ pre[Caller].ex
    /\ faults = 1

\* C9: every change of the event log, also when made by concurrent writers
\* on different invoice keys, keeps all the records it held, unchanged and
\* in order, and adds the one new record after them
\* the callers at work are on pairwise different invoice keys
DistinctKeys ==
    \A t, u \in Threads :
        (t # u /\ key[t] # "none" /\ key[u] # "none") => key[t] # key[u]

C9_AppendOnly ==
    [][(enable_locking /\ DistinctKeys /\ fs'[LogPath].lines # fs[LogPath].lines)
       => \E t \in Threads :
             fs'[LogPath].lines = Append(fs[LogPath].lines, entry[t])]_vars

\* the positions of the event log that hold an event of kind ev for key k
EventsAt(k, ev) ==
    {i \in 1..Len(fs[LogPath].lines) :
        fs[LogPath].lines[i].key = k /\ fs[LogPath].lines[i].ev = ev}

\* C33: `paid` is terminal: once a `paid` event is in the log for an
\* invoice, the log holds no later event for that invoice and no active
\* copy of the invoice exists
C33_PaidIsTerminal ==
    \A k \in Keys : \A i \in EventsAt(k, "paid") :
        /\ \A j \in EventsAt(k, "paid") \cup EventsAt(k, "state_update") : j <= i
        /\ ~fs[<<"state", k>>].ex

\* C34: at every step of mark_paid, and after a crash or an error between
\* two of its steps, an invoice is never both in the active store and in
\* the archive, an invoice that has an event in the log is in one of the
\* two, and an invoice archived as paid has a `paid` event in the log
C34_MarkPaidAtomic ==
    \A k \in Keys :
        /\ ~(fs[<<"state", k>>].ex /\ fs[<<"arch", k>>].ex)
        /\ (EventsAt(k, "paid") \cup EventsAt(k, "state_update") # {})
              => (fs[<<"state", k>>].ex \/ fs[<<"arch", k>>].ex)
        /\ (fs[<<"arch", k>>].ex /\ fs[<<"arch", k>>].d.status = "paid")
              => EventsAt(k, "paid") # {}

\* C39: a write_state that returned has appended exactly one state_update
\* event, its own, to the log; a write_state that raised (lock refused,
\* write failure, failure while appending the event) has left the state
\* file as it was before the call: stated for the first call on an empty
\* store, where the state file did not exist before
C39_WriteStateAllOrNothing ==
    \A t \in Threads : (op[t] = "write_state" /\ pc[t] = "done") =>
        /\ exc[t] = "none" =>
              /\ entry[t].ev = "state_update"
              /\ Cardinality({i \in 1..Len(fs[LogPath].lines) :
                                 fs[LogPath].lines[i] = entry[t]}) = 1
        /\ (exc[t] # "none" /\ calls = 1 /\ crashes = 0)
              => ~fs[<<"state", key[t]>>].ex

(***************************************************************************)
(* The token-bucket rate limiter (rate_limiter.py)                         *)
(***************************************************************************)
\* RateLimitConfig, scaled down (test_blocking_acquire also uses 2 per cycle)
max_per_cycle == 2
cycle_seconds == 2
max_per_day == 3
day_seconds == 5

MaxTime == 8           \* the clock stops here

Times == 0..MaxTime

LimInit ==
    /\ now = 0
    /\ daily_tokens = max_per_day
    /\ daily_last_refill = 0
    /\ cycle_queue = <<>>
    /\ cycle_window_start = 0
    /\ lpc = [t \in Threads |-> "idle"]
    /\ wake = [t \in Threads |-> 0]
    /\ acqAt = [x \in Times |-> 0]
    /\ lastAcq = "none"

\* _refill_daily_tokens: is the bucket refilled by a call at time `now`?
RefillDue == now - daily_last_refill >= day_seconds

RECURSIVE DropExpired(_, _)
DropExpired(q, cutoff) ==
    IF q # <<>> /\ Head(q) < cutoff THEN DropExpired(Tail(q), cutoff) ELSE q

\* _cleanup_cycle_queue: the queue after the expired entries are popped
_cleanup_cycle_queue(q) == DropExpired(q, now - cycle_seconds)

\* (mutant) an off-by-one in the limit test
CycleHasRoom_OffByOne(q) == Len(q) <= max_per_cycle

\* _can_consume_cycle_token, after the cleanup
CycleHasRoom(q) == Len(q) < max_per_cycle

\* (mutant) a locked section that takes a daily token before it looks at
\* the cycle window
AcquireLocked_DailyFirst(ok) ==
    LET d1 == IF RefillDue THEN max_per_day ELSE daily_tokens
        q1 == IF d1 > 0 THEN _cleanup_cycle_queue(cycle_queue) ELSE cycle_queue
        w1 == IF d1 > 0 /\ q1 = <<>> THEN now ELSE cycle_window_start
        can == d1 > 0 /\ CycleHasRoom(q1)
    IN  /\ ok = can
        /\ daily_last_refill' = IF RefillDue THEN now ELSE daily_last_refill
        /\ daily_tokens' = IF d1 > 0 THEN d1 - 1 ELSE d1
        /\ cycle_queue' = IF can THEN Append(q1, now) ELSE q1
        /\ cycle_window_start' = w1
        /\ acqAt' = IF can THEN [acqAt EXCEPT ![now] = @ + 1] ELSE acqAt
        /\ lastAcq' = IF can THEN "ok" ELSE "refused"

\* the locked section at the top of acquire(): refill, check both limits
\* (the cycle check, with its cleanup, only runs when daily tokens remain),
\* consume from both on success.  ok tells whether a token was acquired.
AcquireLocked(ok) ==
    LET d1 == IF RefillDue THEN max_per_day ELSE daily_tokens
        q1 == IF d1 > 0 THEN _cleanup_cycle_queue(cycle_queue) ELSE cycle_queue
        w1 == IF d1 > 0 /\ q1 = <<>> THEN now ELSE cycle_window_start
        can == d1 > 0 /\ CycleHasRoom(q1)
    IN  /\ ok = can
        /\ daily_last_refill' = IF RefillDue THEN now ELSE daily_last_refill
        /\ daily_tokens' = IF can THEN d1 - 1 ELSE d1
        /\ cycle_queue' = IF can THEN Append(q1, now) ELSE q1
        /\ cycle_window_start' = w1
        /\ acqAt' = IF can THEN [acqAt EXCEPT ![now] = @ + 1] ELSE acqAt
        /\ lastAcq' = IF can THEN "ok" ELSE "refused"

\* try_acquire() = acquire(block=False)
TryAcquire(t) ==
    /\ lpc[t] = "idle"
    /\ \E ok \in BOOLEAN : AcquireLocked(ok)
    /\ UNCHANGED <<now, lpc, wake>>
    /\ UNCHANGED nonLim

\* acquire(block=True), first locked section; a refused caller goes on to
\* compute its wait
AcquireBlocking(t) ==
    /\ lpc[t] = "idle"
    /\ \E ok \in BOOLEAN :
          /\ AcquireLocked(ok)
          /\ lpc' = [lpc EXCEPT ![t] = IF ok THEN "idle" ELSE "wait"]
    /\ UNCHANGED <<now, wake>>
    /\ UNCHANGED nonLim

\* acquire(block=True), second locked section (lines 126-136): wait_time
ComputeWait(t) ==
    /\ lpc[t] = "wait"
    /\ LET q1 == _cleanup_cycle_queue(cycle_queue)
           w1 == IF q1 = <<>> THEN now ELSE cycle_window_start
           next_window == w1 + cycle_seconds
           tomorrow == daily_last_refill + day_seconds
           wait_time == IF ~CycleHasRoom(q1)
                        THEN (IF next_window - now > 1 THEN next_window - now ELSE 1)
                        ELSE IF daily_tokens <= 0
                        THEN (IF tomorrow - now > 1 THEN tomorrow - now ELSE 1)
                        ELSE 1
       IN  /\ cycle_queue' = q1
           /\ cycle_window_start' = w1
           /\ wake' = [wake EXCEPT ![t] = now + wait_time]
    /\ lpc' = [lpc EXCEPT ![t] = "sleep"]
    /\ lastAcq' = "none"
    /\ UNCHANGED <<now, daily_tokens, daily_last_refill, acqAt>>
    /\ UNCHANGED nonLim

\* time.sleep(wait_time) is over: return self.acquire(block=True)
WakeRetry(t) ==
    /\ lpc[t] = "sleep"
    /\ now >= wake[t]
    /\ \E ok \in BOOLEAN :
          /\ AcquireLocked(ok)
          /\ lpc' = [lpc EXCEPT ![t] = IF ok THEN "idle" ELSE "wait"]
    /\ wake' = [wake EXCEPT ![t] = 0]
    /\ UNCHANGED now
    /\ UNCHANGED nonLim

\* a second passes
LimTick ==
    /\ now < MaxTime
    /\ now' = now + 1
    /\ UNCHANGED <<daily_tokens, daily_last_refill, cycle_queue, cycle_window_start,
                   lpc, wake, acqAt, lastAcq>>
    /\ UNCHANGED nonLim

LimNext ==
    \/ \E t \in Threads : TryAcquire(t)
    \/ \E t \in Threads : AcquireBlocking(t)
    \/ \E t \in Threads : ComputeWait(t)
    \/ \E t \in Threads : WakeRetry(t)
    \/ LimTick

(***************************************************************************)
(* Claims about the rate limiter                                           *)
(***************************************************************************)
RECURSIVE WindowCount(_, _)
\* successful acquisitions with a timestamp in from..to
WindowCount(from, to) ==
    IF from > to THEN 0
    ELSE (IF from \in Times THEN acqAt[from] ELSE 0) + WindowCount(from + 1, to)

DailyBudget == IF now - daily_last_refill >= day_seconds THEN max_per_day
               ELSE daily_tokens

C19_NextCycleRestores ==
    [][\A t \in Threads : (TryAcquire(t) /\ DailyBudget > 0) =>
          (lastAcq' = "ok" <=>
              WindowCount(now - cycle_seconds + 1, now) < max_per_cycle)]_vars

\* C5: in every window of day_seconds, wherever it starts, at most
\* max_per_day acquisitions succeeded
C5_DailyLimit ==
    \A s \in Times : WindowCount(s, s + day_seconds - 1) <= max_per_day


(***************************************************************************)
(* The token validator (token_validator.py)                                *)
(***************************************************************************)
max_refresh_attempts == 3

\* durations, scaled down: buffer_seconds (300) and the lifetime given to a
\* refreshed token (3600)
buffer_seconds == 2
RefreshLifetime == 4

MaxVTime == 8          \* the validator's clock stops here

Accounts == {"a1", "a2"}
NoToken == [present |-> FALSE, expires_at |-> 0]
NoLast == [op |-> "none", res |-> "none", persisted |-> FALSE, inc |-> 0]

\* the validator as constructed over a cache holding c
ValInitWith(c) ==
    /\ degraded_mode = FALSE
    /\ refresh_attempts = 0
    /\ cache = c
    /\ vnow = 0
    /\ vpc = "idle"
    /\ vacct = "none"
    /\ vattempt = 0
    /\ vlast = NoLast
    /\ notices = 0
    /\ streak = 0

ValInit ==
    \E c \in [Accounts -> {NoToken, [present |-> TRUE, expires_at |-> 1],
                                     [present |-> TRUE, expires_at |-> 4]}] :
        ValInitWith(c)

\* the validator while another component is examined
ValQuiet == ValInitWith([a \in Accounts |-> NoToken])

\* (mutant) a validator that forgets the DEGRADED check
Blocked_Never == FALSE

\* validate_before_request line 53: `if self.degraded_mode`
Blocked == degraded_mode

\* validate_before_request line 64: `remaining < buffer_seconds`
NeedsRefresh(tok) == tok.expires_at - vnow < buffer_seconds

\* validate_before_request up to its return, its raise, or the start of the
\* retry loop of _silent_refresh
Validate(a) ==
    /\ vpc = "idle"
    /\ IF Blocked
       THEN /\ vlast' = [NoLast EXCEPT !.op = "validate", !.res = "DegradedMode"]
            /\ UNCHANGED <<degraded_mode, notices, vpc, vacct, vattempt>>
       ELSE IF ~cache[a].present
       THEN /\ vlast' = [NoLast EXCEPT !.op = "validate", !.res = "NotConfigured"]
            /\ UNCHANGED <<degraded_mode, notices, vpc, vacct, vattempt>>
       ELSE IF ~NeedsRefresh(cache[a])
       THEN /\ vlast' = [NoLast EXCEPT !.op = "validate", !.res = "token"]
            /\ UNCHANGED <<degraded_mode, notices, vpc, vacct, vattempt>>
       ELSE IF refresh_attempts >= max_refresh_attempts
       THEN \* _silent_refresh lines 94-96
            /\ degraded_mode' = TRUE
            /\ notices' = notices + 1
            /\ vlast' = [NoLast EXCEPT !.op = "validate", !.res = "DegradedMode"]
            /\ UNCHANGED <<vpc, vacct, vattempt>>
       ELSE /\ vpc' = "attempt"
            /\ vacct' = a
            /\ vattempt' = 0
            /\ vlast' = [NoLast EXCEPT !.op = "validate", !.res = "refreshing"]
            /\ UNCHANGED <<degraded_mode, notices>>
    /\ UNCHANGED <<refresh_attempts, cache, vnow, streak>>
    /\ UNCHANGED nonVal

\* one iteration of the loop of _silent_refresh in which nothing raises:
\* cache.save_token either stores the token or (TokenCache.save_token
\* catches its own errors) returns False, which the loop does not look at
RefreshReturns(saved) ==
    /\ vpc = "attempt"
    /\ cache' = IF saved
                THEN [cache EXCEPT ![vacct] = [present |-> TRUE,
                                               expires_at |-> vnow + RefreshLifetime]]
                ELSE cache
    /\ refresh_attempts' = 0
    /\ streak' = IF saved THEN 0 ELSE streak
    /\ vlast' = [op |-> "attempt", res |-> "token", persisted |-> saved, inc |-> 0]
    /\ vpc' = "idle"
    /\ vacct' = "none"
    /\ vattempt' = 0
    /\ UNCHANGED <<degraded_mode, vnow, notices>>
    /\ UNCHANGED nonVal

\* one iteration in which the refresh raises: count it, back off 2^attempt
\* seconds and retry, or after the last iteration enter DEGRADED and raise
RefreshRaises ==
    /\ vpc = "attempt"
    /\ refresh_attempts' = refresh_attempts + 1
    /\ streak' = streak + 1
    /\ IF vattempt < max_refresh_attempts - 1
       THEN /\ vnow + 2^vattempt <= MaxVTime
            /\ vnow' = vnow + 2^vattempt
            /\ vattempt' = vattempt + 1
            /\ vlast' = [op |-> "attempt", res |-> "retry", persisted |-> FALSE, inc |-> 1]
            /\ UNCHANGED <<degraded_mode, notices, vpc, vacct>>
       ELSE \* _enter_degraded_mode and _notify_caine_degraded
            /\ degraded_mode' = TRUE
            /\ notices' = notices + 1
            /\ vlast' = [op |-> "attempt", res |-> "RefreshFailed", persisted |-> FALSE,
                         inc |-> 1]
            /\ vpc' = "idle"
            /\ vacct' = "none"
            /\ vattempt' = 0
            /\ vnow' = vnow
    /\ UNCHANGED cache
    /\ UNCHANGED nonVal

\* get_status(account_id): reads only
GetStatus(a) ==
    /\ vpc = "idle"
    /\ vlast' = [NoLast EXCEPT !.op = "get_status",
                               !.res = IF ~cache[a].present THEN "NO_TOKEN"
                                       ELSE IF degraded_mode THEN "DEGRADED"
                                       ELSE "ACTIVE"]
    /\ UNCHANGED <<degraded_mode, refresh_attempts, cache, vnow, vpc, vacct, vattempt,
                   notices, streak>>
    /\ UNCHANGED nonVal

\* reset_degraded_mode()
ResetDegraded ==
    /\ vpc = "idle"
    /\ IF degraded_mode
       THEN /\ degraded_mode' = FALSE
            /\ refresh_attempts' = 0
            /\ streak' = 0
            /\ vlast' = [NoLast EXCEPT !.op = "reset", !.res = "True"]
       ELSE /\ vlast' = [NoLast EXCEPT !.op = "reset", !.res = "False"]
            /\ UNCHANGED <<degraded_mode, refresh_attempts, streak>>
    /\ UNCHANGED <<cache, vnow, vpc, vacct, vattempt, notices>>
    /\ UNCHANGED nonVal

\* interactive re-authentication stores a fresh token (TokenCache.save_token)
Reauthenticate(a) ==
    /\ vpc = "idle"
    /\ cache' = [cache EXCEPT ![a] = [present |-> TRUE,
                                      expires_at |-> vnow + RefreshLifetime]]
    /\ vlast' = [NoLast EXCEPT !.op = "save_token"]
    /\ UNCHANGED <<degraded_mode, refresh_attempts, vnow, vpc, vacct, vattempt, notices,
                   streak>>
    /\ UNCHANGED nonVal

\* a second passes
ValTick ==
    /\ vnow < MaxVTime
    /\ vnow' = vnow + 1
    /\ vlast' = [NoLast EXCEPT !.op = "tick"]
    /\ UNCHANGED <<degraded_mode, refresh_attempts, cache, vpc, vacct, vattempt, notices,
                   streak>>
    /\ UNCHANGED nonVal

ValNext ==
    \/ \E a \in Accounts : Validate(a)
    \/ \E saved \in BOOLEAN : RefreshReturns(saved)
    \/ RefreshRaises
    \/ \E a \in Accounts : GetStatus(a)
    \/ ResetDegraded
    \/ \E a \in Accounts : Reauthenticate(a)
    \/ ValTick

(***************************************************************************)
(* Claims about the token validator                                        *)
(***************************************************************************)
\* C6: from a DEGRADED validator every validate_before_request ends in the
\* degraded-mode error and hands out no token, and only reset_degraded_mode
\* leaves DEGRADED, putting the failure counter at 0
C6_DegradedLatched ==
    [][degraded_mode =>
          /\ vlast'.op = "validate" => (vlast'.res = "DegradedMode" /\ cache' = cache)
          /\ vlast'.res \notin {"token", "refreshing", "retry"}
          /\ ~degraded_mode' => (vlast'.op = "reset" /\ refresh_attempts' = 0)]_vars

\* a call was turned away in DEGRADED although re-authentication has stored
\* a token that is valid now
C6_Witness ==
    /\ degraded_mode
    /\ vlast = [NoLast EXCEPT !.op = "validate", !.res = "DegradedMode"]
    /\ \E a \in Accounts : cache[a].present /\ ~NeedsRefresh(cache[a])

\* C7: an attempt that returns the refreshed token has persisted it and
\* leaves the counter at 0; every other attempt adds one to the counter;
\* the validator is DEGRADED, with one notice emitted, exactly when the
\* counter is at the ceiling, which takes three failed attempts with no
\* successful refresh in between
C7_RefreshCounting ==
    /\ vlast.op = "attempt" =>
          IF vlast.res = "token"
          THEN vlast.persisted /\ refresh_attempts = 0
          ELSE vlast.inc = 1
    /\ degraded_mode <=> refresh_attempts = max_refresh_attempts
    /\ degraded_mode => streak = max_refresh_attempts
    /\ refresh_attempts <= streak
    /\ notices >= (IF degraded_mode THEN 1 ELSE 0)

\* C16: a validate_before_request that reaches the expiry check refreshes
\* the token (does not return the cached one) when its remaining lifetime is
\* the buffer or less, and returns the cached token when the remaining
\* lifetime is more than the buffer
C16_RefreshBoundary ==
    [][\A a \in Accounts :
          (Validate(a) /\ ~degraded_mode /\ cache[a].present) =>
              IF cache[a].expires_at - vnow <= buffer_seconds
              THEN vlast'.res # "token"
              ELSE vlast'.res = "token"]_vars

\* C17: a validate_before_request call whose refresh fails leaves
\* refresh_attempts one above what it was when the call began, and the
\* validator is DEGRADED after the call exactly when the counter has reached
\* the ceiling (the third such call in a row)
C17_OneAttemptPerCall ==
    [][(vpc = "attempt" /\ vpc' = "idle" /\ vlast'.res = "RefreshFailed") =>
          /\ refresh_attempts' = (refresh_attempts - vattempt) + 1
          /\ degraded_mode' <=> (refresh_attempts' = max_refresh_attempts)]_vars

(***************************************************************************)
(* The reminder scheduler (scheduler.py)                                   *)
(***************************************************************************)
MaxRuns == 2           \* send_reminders runs in one behaviour
MaxHalfDays == 8       \* the scheduler's clock stops here

Invoices == <<"i1", "i2">>            \* in the order get_all_unpaid lists them
InvoiceSet == {Invoices[n] : n \in 1..Len(Invoices)}
\* both invoices are billed to one client
ClientOf(i) == "c1"
Clients == {ClientOf(i) : i \in InvoiceSet}

RuleNames == <<"reminder_1", "reminder_2", "overdue_1", "overdue_2", "final_notice",
               "escalation">>
RuleSet == {RuleNames[n] : n \in 1..Len(RuleNames)}

\* REMINDER_RULES: the value of days_until_due at which a rule matches
\* (days_before_due as it is, days_after_due negated)
REMINDER_RULES ==
    [r \in RuleSet |->
        CASE r = "reminder_1" -> 3
          [] r = "reminder_2" -> 0
          [] r = "overdue_1" -> -5
          [] r = "overdue_2" -> -7
          [] r = "final_notice" -> -10
          [] r = "escalation" -> -14]

NoResult == [sent |-> 0, failed |-> 0, rate_limited |-> 0]

\* the scheduler over unpaid invoices with the due dates d
SchedInitWith(d) ==
    /\ snow = 0
    /\ due_date = d
    /\ unpaid = [i \in InvoiceSet |-> TRUE]
    /\ paused = [c \in Clients |-> FALSE]
    /\ reminder_log = [i \in InvoiceSet |-> <<>>]
    /\ failed_log = [i \in InvoiceSet |-> <<>>]
    /\ last_result = NoResult
    /\ delivered = [p \in InvoiceSet \X RuleSet |-> 0]
    /\ runs = 0

SchedInit == \E d \in {6, 7} : SchedInitWith([i \in InvoiceSet |-> IF i = "i1" THEN 6 ELSE d])

\* the scheduler over invoices that have been overdue for 11 days
SchedOverdue ==
    \E d \in {-22, -21} : SchedInitWith([i \in InvoiceSet |-> IF i = "i1" THEN -22 ELSE d])

\* the scheduler while another component is examined
SchedQuiet == SchedInitWith([i \in InvoiceSet |-> 6])

\* (due_date - now).days: timedelta.days is the floor of the difference in
\* days, so half a day overdue is -1
days_until_due(i) == (due_date[i] - snow) \div 2

\* get_due_reminders lines 62 and 70
RuleMatches(i, r) == days_until_due(i) = REMINDER_RULES[r]

RECURSIVE DueFrom(_, _)
\* get_due_reminders: <<invoice, rule>> pairs, invoices in the order of
\* get_all_unpaid, rules in the order of REMINDER_RULES
DueFrom(n, m) ==
    IF n > Len(Invoices) THEN <<>>
    ELSE IF m > Len(RuleNames) THEN DueFrom(n + 1, 1)
    ELSE IF unpaid[Invoices[n]] /\ RuleMatches(Invoices[n], RuleNames[m])
    THEN <<(<<Invoices[n], RuleNames[m]>>)>> \o DueFrom(n, m + 1)
    ELSE DueFrom(n, m + 1)

get_due_reminders == DueFrom(1, 1)

Outcomes == {"ok", "fail", "rate"}

\* the state manager, as send_reminders uses it
is_paused(c) == paused[c]
record_email_sent(log, i, r) == [log EXCEPT ![i] = Append(@, r)]
record_email_failed(flog, i, r) == [flog EXCEPT ![i] = Append(@, r)]

RECURSIVE SendLoop(_, _, _)
\* (mutant) a loop that takes every exception of the sender for a rate limit
SendLoop_AnyErrorStops(todo, outc, st) ==
    IF todo = <<>> THEN st
    ELSE IF is_paused(ClientOf(Head(todo)[1])) THEN SendLoop(Tail(todo), outc, st)
    ELSE IF outc[Head(todo)[1]] = "ok"
    THEN SendLoop(Tail(todo), outc,
             [st EXCEPT !.log = record_email_sent(@, Head(todo)[1], Head(todo)[2]),
                        !.res.sent = @ + 1,
                        !.deliv[Head(todo)] = @ + 1])
    ELSE [st EXCEPT !.res.rate_limited = @ + 1]

\* the loop of send_reminders over `todo`; outc gives, per invoice, what
\* sender.send_collection_reminder does; st carries the state manager's
\* logs, the counters and the history
SendLoop(todo, outc, st) ==
    IF todo = <<>> THEN st
    ELSE LET i == Head(todo)[1]
             r == Head(todo)[2]
         IN  IF is_paused(ClientOf(i)) THEN SendLoop(Tail(todo), outc, st)
             ELSE IF outc[i] = "ok"
             THEN SendLoop(Tail(todo), outc,
                      [st EXCEPT !.log = record_email_sent(@, i, r),
                                 !.res.sent = @ + 1,
                                 !.deliv[<<i, r>>] = @ + 1])
             ELSE IF outc[i] = "rate"
             THEN [st EXCEPT !.res.rate_limited = @ + 1]
             ELSE SendLoop(Tail(todo), outc,
                      [st EXCEPT !.flog = record_email_failed(@, i, r),
                                 !.res.failed = @ + 1])

\* (mutant) a run that hands the first due reminder to the sender without
\* asking whether the client is paused
SendReminders_IgnorePause(batch_size, outc) ==
    /\ runs < MaxRuns
    /\ LET reminders == get_due_reminders
       IN  IF reminders = <<>> \/ outc[Head(reminders)[1]] # "ok"
           THEN /\ last_result' = NoResult
                /\ UNCHANGED <<reminder_log, delivered>>
           ELSE /\ reminder_log' = record_email_sent(reminder_log, Head(reminders)[1],
                                                     Head(reminders)[2])
                /\ delivered' = [delivered EXCEPT ![Head(reminders)] = @ + 1]
                /\ last_result' = [NoResult EXCEPT !.sent = 1]
    /\ runs' = runs + 1
    /\ UNCHANGED <<snow, due_date, unpaid, paused, failed_log>>
    /\ UNCHANGED nonSched

\* send_reminders(batch_size)
SendReminders(batch_size, outc) ==
    /\ runs < MaxRuns
    /\ LET reminders == get_due_reminders
           todo == SubSeq(reminders, 1, IF batch_size < Len(reminders)
                                       THEN batch_size ELSE Len(reminders))
           st == SendLoop(todo, outc, [log |-> reminder_log, flog |-> failed_log,
                                       res |-> NoResult, deliv |-> delivered])
       IN  /\ reminder_log' = st.log
           /\ failed_log' = st.flog
           /\ last_result' = st.res
           /\ delivered' = st.deliv
    /\ runs' = runs + 1
    /\ UNCHANGED <<snow, due_date, unpaid, paused>>
    /\ UNCHANGED nonSched

\* a client opts out or back in (is_paused changes)
SetPaused(c, b) ==
    /\ paused[c] # b
    /\ paused' = [paused EXCEPT ![c] = b]
    /\ UNCHANGED <<snow, due_date, unpaid, reminder_log, failed_log, last_result,
                   delivered, runs>>
    /\ UNCHANGED nonSched

\* an invoice is paid: get_all_unpaid no longer lists it
InvoicePaid(i) ==
    /\ unpaid[i]
    /\ unpaid' = [unpaid EXCEPT ![i] = FALSE]
    /\ UNCHANGED <<snow, due_date, paused, reminder_log, failed_log, last_result,
                   delivered, runs>>
    /\ UNCHANGED nonSched

\* half a day passes
SchedTick ==
    /\ snow < MaxHalfDays
    /\ snow' = snow + 1
    /\ UNCHANGED <<due_date, unpaid, paused, reminder_log, failed_log, last_result,
                   delivered, runs>>
    /\ UNCHANGED nonSched

SchedNext ==
    \/ \E b \in {1, 20}, outc \in [InvoiceSet -> Outcomes] : SendReminders(b, outc)
    \/ \E c \in Clients, b \in BOOLEAN : SetPaused(c, b)
    \/ \E i \in InvoiceSet : InvoicePaid(i)
    \/ SchedTick

\* the scheduler within one half day: runs, pauses and payments
SchedToday ==
    \/ \E b \in {1, 20}, outc \in [InvoiceSet -> Outcomes] : SendReminders(b, outc)
    \/ \E c \in Clients, b \in BOOLEAN : SetPaused(c, b)
    \/ \E i \in InvoiceSet : InvoicePaid(i)

(***************************************************************************)
(* Claims about the reminder scheduler                                     *)
(***************************************************************************)
\* C8: over any number of send_reminders runs no (invoice, rule) pair is
\* sent more than once, and no rule appears twice in an invoice's
\* reminder_log
C8_RuleFiresOnce ==
    /\ \A p \in InvoiceSet \X RuleSet : delivered[p] <= 1
    /\ \A i \in InvoiceSet : \A m, n \in 1..Len(reminder_log[i]) :
          reminder_log[i][m] = reminder_log[i][n] => m = n

BatchOf(b) ==
    SubSeq(get_due_reminders, 1,
           IF b < Len(get_due_reminders) THEN b ELSE Len(get_due_reminders))

\* position in the batch of the first reminder the sender rejects for the
\* rate limit, one past the end when there is none
FirstRate(todo, outc) ==
    LET ks == {k \in 1..Len(todo) : /\ ~is_paused(ClientOf(todo[k][1]))
                                    /\ outc[todo[k][1]] = "rate"}
    IN  IF ks = {} THEN Len(todo) + 1
        ELSE CHOOSE k \in ks : \A j \in ks : k <= j

C27_EscalationArchives ==
    \A i \in InvoiceSet :
        delivered[<<i, "escalation">>] > 0 =>
            /\ ~unpaid[i]
            /\ \A k \in 1..Len(get_due_reminders) : get_due_reminders[k][1] # i

(***************************************************************************)
(* The inter-agent message queue (message_sender.py)                       *)
(***************************************************************************)
MaxSends == 3          \* send calls in one behaviour
MaxReceives == 2       \* receive calls in one behaviour
MaxMTime == 3          \* the agents' clock stops here

dedupe_window == 2     \* 86400 seconds, scaled down

Agents == {"p1", "p2"}

\* the fields of a message that take part in deduplication
Msgs == [type : {"payment"}, invoice : {"INV1", "INV2"}, client : {"c1"}]
NoMsg == [type |-> "none", invoice |-> "none", client |-> "none"]

\* _hash_message: digest of "type:invoice:client", modelled as the triple
_hash_message(m) == <<m.type, m.invoice, m.client>>
Hashes == {_hash_message(m) : m \in Msgs}

MsgIds == 1..MaxSends + 1

NoQueue == [ex |-> FALSE, lines |-> <<>>]

MqInit ==
    /\ mnow = 0
    /\ queue_file = NoQueue
    /\ dedupe_file = [h \in Hashes |-> -1]
    /\ mpc = [p \in Agents |-> "idle"]
    /\ mmsg = [p \in Agents |-> NoMsg]
    /\ mfd = [p \in Agents |-> "none"]
    /\ messages = [p \in Agents |-> <<>>]
    /\ accepted = {}
    /\ returned = [n \in MsgIds |-> 0]
    /\ nextMsg = 0
    /\ sends = 0
    /\ receives = 0
    /\ sentAt = [h \in Hashes |-> <<>>]

\* _is_duplicate: a marker younger than the window
_is_duplicate(m) ==
    /\ dedupe_file[_hash_message(m)] >= 0
    /\ mnow - dedupe_file[_hash_message(m)] < dedupe_window

\* send line 22 and _is_duplicate lines 91-97: a marker younger than the
\* window makes send return; otherwise the caller goes on to record the
\* message
SendCheck(p, m) ==
    /\ mpc[p] = "idle"
    /\ sends < MaxSends
    /\ sends' = sends + 1
    /\ IF _is_duplicate(m)
       THEN UNCHANGED <<mpc, mmsg, sentAt>>
       ELSE /\ mpc' = [mpc EXCEPT ![p] = "s_record"]
            /\ mmsg' = [mmsg EXCEPT ![p] = m]
            /\ sentAt' = [sentAt EXCEPT ![_hash_message(m)] = Append(@, mnow)]
    /\ UNCHANGED <<mnow, queue_file, dedupe_file, mfd, messages, accepted, returned,
                   nextMsg, receives>>
    /\ UNCHANGED nonMq

\* _is_duplicate lines 98-104: a stale marker is unlinked and the marker is
\* written anew, with the time of the write as its mtime
SendRecord(p) ==
    /\ mpc[p] = "s_record"
    /\ dedupe_file' = [dedupe_file EXCEPT ![_hash_message(mmsg[p])] = mnow]
    /\ mpc' = [mpc EXCEPT ![p] = "s_open"]
    /\ UNCHANGED <<mnow, queue_file, mmsg, mfd, messages, accepted, returned, nextMsg,
                   sends, receives, sentAt>>
    /\ UNCHANGED nonMq

\* send, line 28: open(queue_file, 'a') creates the file if it is missing
SendOpen(p) ==
    /\ mpc[p] = "s_open"
    /\ queue_file' = [queue_file EXCEPT !.ex = TRUE]
    /\ mfd' = [mfd EXCEPT ![p] = "linked"]
    /\ mpc' = [mpc EXCEPT ![p] = "s_write"]
    /\ UNCHANGED <<mnow, dedupe_file, mmsg, messages, accepted, returned, nextMsg, sends,
                   receives>>
    /\ UNCHANGED sentAt
    /\ UNCHANGED nonMq

\* send, lines 29-34: the line is written to the opened file, which may have
\* been unlinked in the meantime, and send reports the message as queued
SendWrite(p) ==
    /\ mpc[p] = "s_write"
    /\ nextMsg' = nextMsg + 1
    /\ queue_file' = IF mfd[p] = "linked"
                     THEN [queue_file EXCEPT !.lines = Append(@, nextMsg + 1)]
                     ELSE queue_file
    /\ accepted' = accepted \cup {nextMsg + 1}
    /\ mfd' = [mfd EXCEPT ![p] = "none"]
    /\ mmsg' = [mmsg EXCEPT ![p] = NoMsg]
    /\ mpc' = [mpc EXCEPT ![p] = "idle"]
    /\ UNCHANGED <<mnow, dedupe_file, messages, returned, sends, receives>>
    /\ UNCHANGED sentAt
    /\ UNCHANGED nonMq

\* receive, lines 42-43: `if not queue_file.exists(): return []`
ReceiveExists(p) ==
    /\ mpc[p] = "idle"
    /\ receives < MaxReceives
    /\ receives' = receives + 1
    /\ mpc' = [mpc EXCEPT ![p] = IF queue_file.ex THEN "r_read" ELSE "idle"]
    /\ UNCHANGED <<mnow, queue_file, dedupe_file, mmsg, mfd, messages, accepted, returned,
                   nextMsg, sends>>
    /\ UNCHANGED sentAt
    /\ UNCHANGED nonMq

\* receive, lines 47-55: read every line; a file that has vanished makes
\* open() raise, and the handler returns the empty list
ReceiveRead(p) ==
    /\ mpc[p] = "r_read"
    /\ IF queue_file.ex
       THEN /\ messages' = [messages EXCEPT ![p] = queue_file.lines]
            /\ mpc' = [mpc EXCEPT ![p] = "r_unlink"]
       ELSE /\ mpc' = [mpc EXCEPT ![p] = "idle"]
            /\ UNCHANGED messages
    /\ UNCHANGED <<mnow, queue_file, dedupe_file, mmsg, mfd, accepted, returned, nextMsg,
                   sends, receives>>
    /\ UNCHANGED sentAt
    /\ UNCHANGED nonMq

RECURSIVE Count(_, _)
\* occurrences of n in the sequence q
Count(q, n) == IF q = <<>> THEN 0
               ELSE (IF Head(q) = n THEN 1 ELSE 0) + Count(Tail(q), n)

\* receive, lines 58-63: unlink the file (if it has vanished the error is
\* caught) and return the lines read
ReceiveUnlink(p) ==
    /\ mpc[p] = "r_unlink"
    /\ queue_file' = NoQueue
    /\ mfd' = IF queue_file.ex
              THEN [a \in Agents |-> IF mfd[a] = "linked" THEN "orphan" ELSE mfd[a]]
              ELSE mfd
    /\ returned' = [n \in MsgIds |-> returned[n] + Count(messages[p], n)]
    /\ messages' = [messages EXCEPT ![p] = <<>>]
    /\ mpc' = [mpc EXCEPT ![p] = "idle"]
    /\ UNCHANGED <<mnow, dedupe_file, mmsg, accepted, nextMsg, sends, receives>>
    /\ UNCHANGED sentAt
    /\ UNCHANGED nonMq

\* a second passes
MqTick ==
    /\ mnow < MaxMTime
    /\ mnow' = mnow + 1
    /\ UNCHANGED <<queue_file, dedupe_file, mpc, mmsg, mfd, messages, accepted, returned,
                   nextMsg, sends, receives>>
    /\ UNCHANGED sentAt
    /\ UNCHANGED nonMq

MqNext ==
    \/ \E p \in Agents, m \in Msgs : SendCheck(p, m)
    \/ \E p \in Agents : SendRecord(p)
    \/ \E p \in Agents : SendOpen(p)
    \/ \E p \in Agents : SendWrite(p)
    \/ \E p \in Agents : ReceiveExists(p)
    \/ \E p \in Agents : ReceiveRead(p)
    \/ \E p \in Agents : ReceiveUnlink(p)
    \/ MqTick

(***************************************************************************)
(* Claims about the message queue                                          *)
(***************************************************************************)
\* a receive call in progress holds message n
InHand(n) == \E p \in Agents : Count(messages[p], n) > 0

\* C10: under every interleaving of send and receive, a message that send
\* has queued is still in the queue file, or is held by the one receive call
\* that is about to return it, or has been returned by exactly one receive
\* call: it never disappears and is never returned twice
C10_ExactlyOnce ==
    \A n \in accepted :
        /\ returned[n] <= 1
        /\ returned[n] = 0 => (Count(queue_file.lines, n) > 0 \/ InHand(n))
        /\ Cardinality({p \in Agents : Count(messages[p], n) > 0}) + returned[n] <= 1

\* C20: a send whose key was sent less than dedupe_window before is skipped
\* (it adds no line to the mailbox), and a send whose key was last sent more
\* than dedupe_window before is enqueued again
C20_DedupeWindow ==
    [][\A p \in Agents, m \in Msgs : SendCheck(p, m) =>
          LET at == sentAt[_hash_message(m)]
              recent == \E n \in 1..Len(at) : mnow - at[n] < dedupe_window
              old == at # <<>> /\ \A n \in 1..Len(at) : mnow - at[n] > dedupe_window
          IN  /\ recent => (mpc'[p] = "idle" /\ sentAt' = sentAt)
              /\ old => mpc'[p] = "s_record"]_vars

(***************************************************************************)
(* The ledger (ledger.py).  Amounts are whole currency units; a total is   *)
(* written to the Summary as "$%.2f" and two totals are the same text      *)
(* exactly when they are the same number.                                  *)
(***************************************************************************)
MaxLedgerOps == 4      \* ledger calls in one behaviour
MaxReopens == 1        \* Ledger objects opened over an existing file

LedgerNumbers == {"n1", "n2"}
LedgerAmounts == {1, 2}
Sections == {"unpaid", "paid", "escalated"}

NoTotals == [unpaid |-> 0, paid |-> 0, escalated |-> 0]
NoArg == [num |-> "none", amt |-> 0]

\* _create_initial: empty sections and a Summary of zeros
InitialLedger ==
    [unpaid |-> {}, paid |-> {}, escalated |-> {},
     sum |-> [unpaid |-> 0, paid |-> 0, escalated |-> 0, grand |-> 0]]

LedgerInit ==
    /\ ledger_file = InitialLedger
    /\ _totals = NoTotals
    /\ ledger_pc = "idle"
    /\ larg = NoArg
    /\ lres = "none"
    /\ lbefore = InitialLedger
    /\ lafter = InitialLedger
    /\ lops = 0
    /\ lreopens = 0

\* _load_totals, one total: the pattern \$([\d,]+\.?\d*) wants a digit right
\* after the dollar sign, so "$-50.00" does not match and the total keeps
\* the value it had
ParseTotal(v, dflt) == IF v >= 0 THEN v ELSE dflt

\* _load_totals over the Summary of file f
_load_totals(f) ==
    [s \in Sections |-> ParseTotal(f.sum[s], NoTotals[s])]

SumOf(t) == t.unpaid + t.paid + t.escalated

\* get_summary
get_summary ==
    [unpaid_total |-> _totals.unpaid, paid_total |-> _totals.paid,
     escalated_total |-> _totals.escalated, grand_total |-> SumOf(_totals)]

\* (mutant) a check that looks at the Unpaid section only
_invoice_exists_UnpaidOnly(f, n) == \E e \in f.unpaid : e[1] = n

\* _invoice_exists: the number occurs anywhere in the file
_invoice_exists(f, n) ==
    \E sct \in Sections : \E e \in f[sct] : e[1] = n

\* _remove_from_unpaid
InUnpaid(f, n) == \E e \in f.unpaid : e[1] = n
_remove_from_unpaid(f, n) == [f EXCEPT !.unpaid = {e \in @ : e[1] # n}]

\* _append_to_section
_append_to_section(f, sct, e) == [f EXCEPT ![sct] = @ \cup {e}]

\* _update_totals, the object: self._totals[section] += amount
TotalsAfter(t, sct, a) == [t EXCEPT ![sct] = @ + a]

\* _update_totals, the file: content.replace(old, new) for the line of the
\* section and for the Grand Total line, old being computed from the
\* object's totals t as they were before the call; a line that does not
\* read as `old` stays as it is
FileAfterTotals(f, t, sct, a) ==
    [f EXCEPT !.sum[sct] = IF @ = t[sct] THEN t[sct] + a ELSE @,
              !.sum.grand = IF @ = SumOf(t) THEN SumOf(t) + a ELSE @]

\* the file an operation leaves when all its steps run
LedgerAfterAdd(f, t, n, a) ==
    FileAfterTotals(_append_to_section(f, "unpaid", <<n, a>>), t, "unpaid", a)

LedgerAfterMove(f, t, dest, n, a) ==
    LET f1 == _append_to_section(_remove_from_unpaid(f, n), dest, <<n, a>>)
        f2 == FileAfterTotals(f1, t, "unpaid", 0 - a)
    IN  FileAfterTotals(f2, TotalsAfter(t, "unpaid", 0 - a), dest, a)

\* add_invoice up to the end of _append_to_section, or its LedgerError
LedgerAdd(n, a) ==
    /\ ledger_pc = "idle"
    /\ lops < MaxLedgerOps
    /\ lops' = lops + 1
    /\ IF _invoice_exists(ledger_file, n)
       THEN /\ lres' = "LedgerError"
            /\ UNCHANGED <<ledger_file, ledger_pc, larg, lbefore, lafter>>
       ELSE /\ ledger_file' = _append_to_section(ledger_file, "unpaid", <<n, a>>)
            /\ ledger_pc' = "add_totals"
            /\ larg' = [num |-> n, amt |-> a]
            /\ lres' = "running"
            /\ lbefore' = ledger_file
            /\ lafter' = LedgerAfterAdd(ledger_file, _totals, n, a)
    /\ UNCHANGED <<_totals, lreopens>>
    /\ UNCHANGED nonLedger

\* add_invoice: _update_totals("unpaid", amount)
LedgerAddTotals ==
    /\ ledger_pc = "add_totals"
    /\ ledger_file' = FileAfterTotals(ledger_file, _totals, "unpaid", larg.amt)
    /\ _totals' = TotalsAfter(_totals, "unpaid", larg.amt)
    /\ ledger_pc' = "idle"
    /\ larg' = NoArg
    /\ lres' = "ok"
    /\ UNCHANGED <<lbefore, lafter, lops, lreopens>>
    /\ UNCHANGED nonLedger

\* mark_paid (dest = "paid") and escalate (dest = "escalated") up to the end
\* of _remove_from_unpaid, or their LedgerError
LedgerMove(dest, n, a) ==
    /\ ledger_pc = "idle"
    /\ lops < MaxLedgerOps
    /\ lops' = lops + 1
    /\ IF ~InUnpaid(ledger_file, n)
       THEN /\ lres' = "LedgerError"
            /\ UNCHANGED <<ledger_file, ledger_pc, larg, lbefore, lafter>>
       ELSE /\ ledger_file' = _remove_from_unpaid(ledger_file, n)
            /\ ledger_pc' = IF dest = "paid" THEN "paid_append" ELSE "escalated_append"
            /\ larg' = [num |-> n, amt |-> a]
            /\ lres' = "running"
            /\ lbefore' = ledger_file
            /\ lafter' = LedgerAfterMove(ledger_file, _totals, dest, n, a)
    /\ UNCHANGED <<_totals, lreopens>>
    /\ UNCHANGED nonLedger

\* mark_paid / escalate: _append_to_section
LedgerMoveAppend(dest) ==
    /\ ledger_pc = IF dest = "paid" THEN "paid_append" ELSE "escalated_append"
    /\ ledger_file' = _append_to_section(ledger_file, dest, <<larg.num, larg.amt>>)
    /\ ledger_pc' = IF dest = "paid" THEN "paid_totals1" ELSE "escalated_totals1"
    /\ UNCHANGED <<_totals, larg, lres, lbefore, lafter, lops, lreopens>>
    /\ UNCHANGED nonLedger

\* mark_paid / escalate: _update_totals("unpaid", -amount)
LedgerMoveTotals1(dest) ==
    /\ ledger_pc = IF dest = "paid" THEN "paid_totals1" ELSE "escalated_totals1"
    /\ ledger_file' = FileAfterTotals(ledger_file, _totals, "unpaid", 0 - larg.amt)
    /\ _totals' = TotalsAfter(_totals, "unpaid", 0 - larg.amt)
    /\ ledger_pc' = IF dest = "paid" THEN "paid_totals2" ELSE "escalated_totals2"
    /\ UNCHANGED <<larg, lres, lbefore, lafter, lops, lreopens>>
    /\ UNCHANGED nonLedger

\* mark_paid / escalate: _update_totals(dest, amount), return True
LedgerMoveTotals2(dest) ==
    /\ ledger_pc = IF dest = "paid" THEN "paid_totals2" ELSE "escalated_totals2"
    /\ ledger_file' = FileAfterTotals(ledger_file, _totals, dest, larg.amt)
    /\ _totals' = TotalsAfter(_totals, dest, larg.amt)
    /\ ledger_pc' = "idle"
    /\ larg' = NoArg
    /\ lres' = "ok"
    /\ UNCHANGED <<lbefore, lafter, lops, lreopens>>
    /\ UNCHANGED nonLedger

\* the process ends, between calls or in the middle of one, and a new
\* Ledger(ledger_path) is opened over the file: __init__ and _load_totals
LedgerReopen ==
    /\ lreopens < MaxReopens
    /\ lreopens' = lreopens + 1
    /\ _totals' = _load_totals(ledger_file)
    /\ ledger_pc' = "idle"
    /\ larg' = NoArg
    /\ lres' = IF ledger_pc = "idle" THEN "opened" ELSE "crashed"
    /\ UNCHANGED <<ledger_file, lbefore, lafter, lops>>
    /\ UNCHANGED nonLedger

LedgerNext ==
    \/ \E n \in LedgerNumbers, a \in LedgerAmounts : LedgerAdd(n, a)
    \/ LedgerAddTotals
    \/ \E d \in {"paid", "escalated"}, n \in LedgerNumbers, a \in LedgerAmounts :
          LedgerMove(d, n, a)
    \/ \E d \in {"paid", "escalated"} : LedgerMoveAppend(d)
    \/ \E d \in {"paid", "escalated"} : LedgerMoveTotals1(d)
    \/ \E d \in {"paid", "escalated"} : LedgerMoveTotals2(d)
    \/ LedgerReopen

(***************************************************************************)
(* Claims about the ledger                                                 *)
(***************************************************************************)
\* C11: after every completed add_invoice, mark_paid or escalate, also by a
\* Ledger opened over an existing file, the three totals add up to the grand
\* total, in get_summary and in the Summary section of the file
C11_TotalsAddUp ==
    lres = "ok" =>
        /\ get_summary.unpaid_total + get_summary.paid_total
              + get_summary.escalated_total = get_summary.grand_total
        /\ SumOf(ledger_file.sum) = ledger_file.sum.grand

\* C12: while add_invoice, mark_paid or escalate is in progress, and after a
\* crash in the middle of one, the file is the file from before the call or
\* the file the completed call leaves
C12_NeverHalfUpdated ==
    (ledger_pc # "idle" \/ lres = "crashed") => ledger_file \in {lbefore, lafter}

\* the entries of file f, over all sections, that carry number n
EntriesOf(f, n) ==
    {p \in UNION {{<<sct, e>> : e \in f[sct]} : sct \in Sections} : p[2][1] = n}

\* C21: an add_invoice of a number that is already in the ledger, in
\* whatever section, is rejected with LedgerError and leaves the file and
\* the totals as they were; no number ever has two entries, and after a
\* completed operation every number the ledger held is in exactly one section
C21_LedgerUniqueness ==
    [][/\ \A n \in LedgerNumbers, a \in LedgerAmounts :
             (LedgerAdd(n, a) /\ Cardinality(EntriesOf(ledger_file, n)) > 0) =>
                 /\ lres' = "LedgerError"
                 /\ ledger_file' = ledger_file
                 /\ _totals' = _totals
       /\ \A n \in LedgerNumbers : Cardinality(EntriesOf(ledger_file', n)) <= 1
       /\ lres' = "ok" =>
             \A n \in LedgerNumbers :
                 Cardinality(EntriesOf(lbefore', n)) = 1 =>
                     Cardinality(EntriesOf(ledger_file', n)) = 1]_vars

\* an add_invoice was rejected while every number was listed as unpaid
C21_Witness ==
    /\ lres = "LedgerError"
    /\ \A n \in LedgerNumbers : InUnpaid(ledger_file, n)
    /\ \E n \in LedgerNumbers : Cardinality(EntriesOf(ledger_file, n)) = 1

RECURSIVE SumEntries(_)
\* the sum of the amounts of a set of entries
SumEntries(es) ==
    IF es = {} THEN 0
    ELSE LET e == CHOOSE x \in es : TRUE
         IN  e[2] + SumEntries(es \ {e})

\* C40: after every completed add_invoice, mark_paid or escalate, each of the
\* three totals, in get_summary and in the Summary of the file, is the sum
\* of the amounts of the entries listed in its section, also when mark_paid
\* or escalate was given another amount than the one the invoice was added
\* with
C40_TotalsMatchEntries ==
    lres = "ok" =>
        \A sct \in Sections :
            /\ _totals[sct] = SumEntries(ledger_file[sct])
            /\ ledger_file.sum[sct] = SumEntries(ledger_file[sct])

(***************************************************************************)
(* read_state, _attempt_recovery and create_backup (invoice_state.py)      *)
(***************************************************************************)
MaxReadSteps == 4      \* writes, backups and damages in one behaviour

\* the records a caller writes
ReadData == {[NoData EXCEPT !.status = st, !.amount = a] :
                st \in {"unpaid", "paid"}, a \in Amounts}

NoRead == [res |-> "none", from |-> "none", d |-> NoData, has_cks |-> FALSE,
           cks |-> NoCks, verify |-> FALSE]

ReadInit ==
    /\ sfile = NoFile
    /\ bfile = NoFile
    /\ rout = NoRead
    /\ rsteps = 0

\* json.load succeeds on the file
Parses(f) == f.parts = Complete /\ ~f.torn

\* (mutant) a comparison that never finds a difference
ChecksumMismatch_Never(f) == FALSE

\* read_state lines 186-190: a stored checksum that is not the recomputed one
ChecksumMismatch(f) == f.has_cks /\ f.cks # _compute_checksum(f.d)

\* _attempt_recovery: the parsed backup, as it is, or None
_attempt_recovery(b) ==
    IF b.ex /\ Parses(b)
    THEN [res |-> "recovered", from |-> "bak", d |-> b.d, has_cks |-> b.has_cks,
          cks |-> b.cks, verify |-> TRUE]
    ELSE [NoRead EXCEPT !.res = "StateCorruptionError"]

\* read_state(client, invoice, verify_checksum) over state file f and backup b
ReadStateOf(f, b, verify) ==
    IF ~f.ex THEN [NoRead EXCEPT !.res = "None", !.verify = verify]
    ELSE IF ~Parses(f) THEN [_attempt_recovery(b) EXCEPT !.verify = verify]
    ELSE IF verify /\ ChecksumMismatch(f)
         THEN _attempt_recovery(b)
    ELSE [res |-> "ok", from |-> "state", d |-> f.d,
          has_cks |-> IF verify THEN FALSE ELSE f.has_cks,
          cks |-> IF verify THEN NoCks ELSE f.cks, verify |-> verify]

\* a read_state call
ReadCall(verify) ==
    /\ rout' = ReadStateOf(sfile, bfile, verify)
    /\ UNCHANGED <<sfile, bfile, rsteps>>
    /\ UNCHANGED nonRead

\* verify_integrity(client, invoice): is_valid unless the state file is
\* missing or read_state raises
verify_integrity(f, b) ==
    IF ~f.ex THEN "not_found"
    ELSE IF ReadStateOf(f, b, TRUE).res = "StateCorruptionError" THEN "not_valid"
    ELSE "is_valid"

\* a verify_integrity call
ReadVerify ==
    /\ rout' = [NoRead EXCEPT !.res = verify_integrity(sfile, bfile)]
    /\ UNCHANGED <<sfile, bfile, rsteps>>
    /\ UNCHANGED nonRead

\* a completed write_state(client, invoice, d)
ReadWrite(d) ==
    /\ rsteps < MaxReadSteps
    /\ rsteps' = rsteps + 1
    /\ sfile' = [NoFile EXCEPT !.ex = TRUE, !.d = d, !.has_cks = TRUE,
                               !.cks = _compute_checksum(d), !.parts = Complete]
    /\ rout' = NoRead
    /\ UNCHANGED bfile
    /\ UNCHANGED nonRead

\* create_backup: copy the state file over the backup
ReadBackup ==
    /\ rsteps < MaxReadSteps
    /\ rsteps' = rsteps + 1
    /\ IF sfile.ex
       THEN bfile' = sfile /\ rout' = NoRead
       ELSE bfile' = bfile /\ rout' = [NoRead EXCEPT !.res = "FileNotFoundError"]
    /\ UNCHANGED sfile
    /\ UNCHANGED nonRead

\* the bytes of a file change behind the store's back: a field is altered,
\* the file is cut short, or the _checksum field is lost
Damaged(f) ==
    {[f EXCEPT !.d.amount = a] : a \in Amounts \ {f.d.amount}}
        \cup {[f EXCEPT !.torn = TRUE], [f EXCEPT !.has_cks = FALSE, !.cks = NoCks]}

ReadDamage(which) ==
    /\ rsteps < MaxReadSteps
    /\ rsteps' = rsteps + 1
    /\ rout' = NoRead
    /\ IF which = "state"
       THEN /\ sfile.ex
            /\ sfile' \in Damaged(sfile) \ {sfile}
            /\ UNCHANGED bfile
       ELSE /\ bfile.ex
            /\ bfile' \in Damaged(bfile) \ {bfile}
            /\ UNCHANGED sfile
    /\ UNCHANGED nonRead

ReadNext ==
    \/ \E v \in BOOLEAN : ReadCall(v)
    \/ ReadVerify
    \/ \E d \in ReadData : ReadWrite(d)
    \/ ReadBackup
    \/ \E w \in {"state", "bak"} : ReadDamage(w)

C31_IntegrityReportsMismatch ==
    (/\ rout.res \in {"is_valid", "not_valid"}
     /\ sfile.ex /\ Parses(sfile)
     /\ sfile.has_cks /\ sfile.cks # _compute_checksum(sfile.d))
    => rout.res = "not_valid"

\* C36: what a read_state with verification returns, from the state file or
\* from the backup, comes from a file that carries a _checksum equal to the
\* checksum recomputed over its content
C36_OnlyVerifiedData ==
    (rout.verify /\ rout.res \in {"ok", "recovered"}) =>
        LET src == IF rout.from = "bak" THEN bfile ELSE sfile
        IN  src.has_cks /\ src.cks = _compute_checksum(src.d)

(***************************************************************************)
(* Payment detection and reconciliation (payment_detector.py, ledger.py)   *)
(***************************************************************************)
MaxBookSteps == 5      \* writing operations in one behaviour

BookNumbers == <<"n1", "n2">>          \* in the order rglob lists the files
BookNumberSet == {BookNumbers[i] : i \in 1..Len(BookNumbers)}

NoRecord == [at |-> "none", status |-> "none", amount |-> 0]
NoBookOp == [op |-> "none", num |-> "none", out |-> "none", passed |-> FALSE,
             fixed |-> FALSE]

BooksInit ==
    /\ book_state = [n \in BookNumberSet |-> NoRecord]
    /\ book_unpaid = <<>>
    /\ book_paid = {}
    /\ book_total = 0
    /\ payment_queue = <<>>
    /\ mailbox = <<>>
    /\ book_last = NoBookOp
    /\ book_steps = 0

RECURSIVE SumAmounts(_, _)
\* the sum of the amounts of the records of rec, over the numbers in S, that
\* are counted by keep
SumAmounts(S, amt) ==
    IF S = {} THEN 0
    ELSE LET n == CHOOSE x \in S : TRUE IN amt[n] + SumAmounts(S \ {n}, amt)

\* reconcile lines 226-248: the sum over the state files with status unpaid
\* or pending.  The filter `state_file.parent.name == "archive"` never
\* matches archive/{client}/{invoice}.json, whose parent is the client
\* directory, so archived records are read too.
StateTotal(rec) ==
    SumAmounts(BookNumberSet,
               [n \in BookNumberSet |->
                   IF rec[n].at # "none" /\ rec[n].status \in {"unpaid", "pending"}
                   THEN rec[n].amount ELSE 0])

\* reconcile lines 250-255: passed = abs(state_total - ledger_total) < 0.01
ReconcilePasses(rec, total) == StateTotal(rec) = total

RECURSIVE FixEntries(_, _)
\* _fix_discrepancies lines 467-476: one Unpaid line per state file handed
\* over, which is every *.json under the state directory
FixEntries(rec, i) ==
    IF i > Len(BookNumbers) THEN <<>>
    ELSE IF rec[BookNumbers[i]].at = "none" THEN FixEntries(rec, i + 1)
    ELSE <<(<<BookNumbers[i], rec[BookNumbers[i]].amount>>)>> \o FixEntries(rec, i + 1)

\* the numbers with a line in the sequence of Unpaid lines
RECURSIVE LinesOf(_, _)
LinesOf(lines, n) ==
    IF lines = <<>> THEN 0
    ELSE (IF Head(lines)[1] = n THEN 1 ELSE 0) + LinesOf(Tail(lines), n)

RECURSIVE DropFirst(_, _)
\* _remove_from_unpaid: the first line that carries the number is popped
DropFirst(lines, n) ==
    IF lines = <<>> THEN <<>>
    ELSE IF Head(lines)[1] = n THEN Tail(lines)
    ELSE <<Head(lines)>> \o DropFirst(Tail(lines), n)

\* InvoiceState.write_state of an unpaid or pending record
BooksWriteState(n, st, a) ==
    /\ book_steps < MaxBookSteps
    /\ book_steps' = book_steps + 1
    /\ book_state' = [book_state EXCEPT ![n] = [at |-> "active", status |-> st,
                                                 amount |-> a]]
    /\ book_last' = [NoBookOp EXCEPT !.op = "write_state", !.num = n, !.out = "ok"]
    /\ UNCHANGED <<book_unpaid, book_paid, book_total, payment_queue, mailbox>>
    /\ UNCHANGED nonBooks

\* Ledger.add_invoice
BooksLedgerAdd(n, a) ==
    /\ book_steps < MaxBookSteps
    /\ book_steps' = book_steps + 1
    /\ IF LinesOf(book_unpaid, n) > 0 \/ n \in book_paid
       THEN /\ book_last' = [NoBookOp EXCEPT !.op = "add_invoice", !.num = n,
                                              !.out = "LedgerError"]
            /\ UNCHANGED <<book_unpaid, book_total>>
       ELSE /\ book_unpaid' = <<(<<n, a>>)>> \o book_unpaid
            /\ book_total' = book_total + a
            /\ book_last' = [NoBookOp EXCEPT !.op = "add_invoice", !.num = n,
                                              !.out = "ok"]
    /\ UNCHANGED <<book_state, book_paid, payment_queue, mailbox>>
    /\ UNCHANGED nonBooks

\* Ledger.mark_paid
BooksLedgerMarkPaid(n, a) ==
    /\ book_steps < MaxBookSteps
    /\ book_steps' = book_steps + 1
    /\ IF LinesOf(book_unpaid, n) = 0
       THEN /\ book_last' = [NoBookOp EXCEPT !.op = "ledger_mark_paid", !.num = n,
                                              !.out = "LedgerError"]
            /\ UNCHANGED <<book_unpaid, book_paid, book_total>>
       ELSE /\ book_unpaid' = DropFirst(book_unpaid, n)
            /\ book_paid' = book_paid \cup {n}
            /\ book_total' = book_total - a
            /\ book_last' = [NoBookOp EXCEPT !.op = "ledger_mark_paid", !.num = n,
                                              !.out = "ok"]
    /\ UNCHANGED <<book_state, payment_queue, mailbox>>
    /\ UNCHANGED nonBooks

\* _process_payment_file for a payment file that check_confidence matches
\* (or not) with invoice n.  self.state.mark_paid is InvoiceState.mark_paid;
\* self.state.archive_invoice either is missing, as on InvoiceState, and
\* raises AttributeError, or returns; every exception is caught and logged.
BooksProcessPayment(n, matches, archives) ==
    /\ book_steps < MaxBookSteps
    /\ book_steps' = book_steps + 1
    /\ IF ~matches
       THEN /\ book_last' = [NoBookOp EXCEPT !.op = "payment", !.num = n,
                                              !.out = "no_match"]
            /\ UNCHANGED <<book_state, payment_queue>>
       ELSE IF book_state[n].at # "active"
       THEN \* mark_paid raises FileNotFoundError
            /\ book_last' = [NoBookOp EXCEPT !.op = "payment", !.num = n,
                                              !.out = "mark_paid_failed"]
            /\ UNCHANGED <<book_state, payment_queue>>
       ELSE /\ book_state' = [book_state EXCEPT ![n].at = "archive",
                                                 ![n].status = "paid"]
            /\ IF archives
               THEN \* _notify_emailer: a line appended to payment_queue.json
                    /\ payment_queue' = Append(payment_queue, n)
                    /\ book_last' = [NoBookOp EXCEPT !.op = "payment", !.num = n,
                                                      !.out = "processed"]
               ELSE /\ book_last' = [NoBookOp EXCEPT !.op = "payment", !.num = n,
                                                      !.out = "archive_failed"]
                    /\ UNCHANGED payment_queue
    /\ UNCHANGED <<book_unpaid, book_paid, book_total, mailbox>>
    /\ UNCHANGED nonBooks

\* Ledger.reconcile(state_dir, auto_fix): compare, and with auto_fix on a
\* failed comparison _fix_discrepancies, which writes one line per state
\* file below the Unpaid header, keeps the lines that were there (the blank
\* line after the header ends the skipping at once) and touches no total
BooksReconcile(auto_fix) ==
    /\ LET passed == ReconcilePasses(book_state, book_total)
       IN  IF auto_fix /\ ~passed
           THEN /\ book_steps < MaxBookSteps
                /\ book_steps' = book_steps + 1
                /\ book_unpaid' = FixEntries(book_state, 1) \o book_unpaid
                /\ book_last' = [NoBookOp EXCEPT !.op = "reconcile", !.passed = passed,
                                                  !.fixed = TRUE, !.out = "ok"]
           ELSE /\ book_last' = [NoBookOp EXCEPT !.op = "reconcile", !.passed = passed,
                                                  !.out = "ok"]
                /\ UNCHANGED <<book_unpaid, book_steps>>
    /\ UNCHANGED <<book_state, book_paid, book_total, payment_queue, mailbox>>
    /\ UNCHANGED nonBooks

BooksNext ==
    \/ \E n \in BookNumberSet, st \in {"unpaid", "pending"}, a \in Amounts :
          BooksWriteState(n, st, a)
    \/ \E n \in BookNumberSet, a \in Amounts : BooksLedgerAdd(n, a)
    \/ \E n \in BookNumberSet, a \in Amounts : BooksLedgerMarkPaid(n, a)
    \/ \E n \in BookNumberSet, m \in BOOLEAN, ar \in BOOLEAN :
          BooksProcessPayment(n, m, ar)
    \/ \E f \in BOOLEAN : BooksReconcile(f)

(***************************************************************************)
(* Claims about the books                                                  *)
(***************************************************************************)
\* the sum of the amounts of the active records with status unpaid
ActiveUnpaidTotal(rec) ==
    SumAmounts(BookNumberSet,
               [n \in BookNumberSet |->
                   IF rec[n].at = "active" /\ rec[n].status = "unpaid"
                   THEN rec[n].amount ELSE 0])

\* C22: the ledger's unpaid_total is the sum of the amounts of the active
\* state records with status unpaid; in particular, when that holds before
\* a payment is detected it still holds after the payment has marked the
\* invoice paid and archived it
C22_UnpaidTotalMatchesState ==
    [][\A n \in BookNumberSet, m \in BOOLEAN, ar \in BOOLEAN :
          (BooksProcessPayment(n, m, ar) /\ book_total = ActiveUnpaidTotal(book_state))
              => book_total' = ActiveUnpaidTotal(book_state')]_vars

\* C23: after a reconcile with auto_fix that fixed something, the Unpaid
\* section lists exactly the active records with status unpaid or pending,
\* each once, and a reconcile made right after it passes
C23_AutoFixRestores ==
    [][(BooksReconcile(TRUE) /\ book_last'.fixed) =>
          /\ \A n \in BookNumberSet :
                LinesOf(book_unpaid', n) =
                    (IF book_state'[n].at = "active"
                        /\ book_state'[n].status \in {"unpaid", "pending"}
                     THEN 1 ELSE 0)
          /\ StateTotal(book_state') = book_total']_vars

\* C29: a matched payment whose mark_paid succeeds leaves an INVOICE_PAID
\* message for the invoice in the scheduler's mailbox, and a payment whose
\* mark_paid fails leaves no notification anywhere
C29_PaymentNotifiesScheduler ==
    [][\A n \in BookNumberSet, ar \in BOOLEAN :
          BooksProcessPayment(n, TRUE, ar) =>
              IF book_state[n].at = "active"
              THEN /\ book_state'[n].at = "archive"
                   /\ mailbox' = Append(mailbox, n)
              ELSE mailbox' = mailbox /\ payment_queue' = payment_queue]_vars

(***************************************************************************)
(* Agent health (health_checker.py)                                        *)
(***************************************************************************)
MaxHealthSteps == 4    \* check_all runs and heartbeat-log lines in one behaviour
MaxHTime == 150        \* the supervisor's clock stops here (minutes)

HEARTBEAT_TIMEOUT_MINUTES == 60
MISSED_THRESHOLD == 2

HealthInit ==
    /\ hnow = 0
    /\ last_heartbeat = -1
    /\ hstatus = "unknown"
    /\ herrors = 0
    /\ hb_log = [ex |-> FALSE, lines |-> <<>>]
    /\ hreport = [status |-> "none", stale |-> FALSE]
    /\ misses = 0
    /\ restart_tried = 0
    /\ escalations = 0
    /\ hsteps = 0

\* AgentHealthStatus.is_stale
is_stale(max_age_minutes) ==
    IF last_heartbeat = -1 THEN TRUE
    ELSE hnow - last_heartbeat > max_age_minutes

\* the last n lines of a log
LastLines(lines, n) ==
    IF Len(lines) <= n THEN lines ELSE SubSeq(lines, Len(lines) - n + 1, Len(lines))

RECURSIVE StaleRun(_, _)
\* the loop of _count_missed_heartbeats over lines[1..k], from the end:
\* stale entries are counted, the first other entry ends the loop, lines
\* that are not JSON are passed over
StaleRun(lines, k) ==
    IF k = 0 THEN 0
    ELSE IF lines[k] = "bad" THEN StaleRun(lines, k - 1)
    ELSE IF lines[k] = "stale" THEN 1 + StaleRun(lines, k - 1)
    ELSE 0

\* _count_missed_heartbeats
_count_missed_heartbeats ==
    IF ~hb_log.ex THEN 0
    ELSE StaleRun(LastLines(hb_log.lines, 10), Len(LastLines(hb_log.lines, 10)))

\* check_all over the agent: _check_agent
HealthCheckAll ==
    /\ hsteps < MaxHealthSteps
    /\ hsteps' = hsteps + 1
    /\ IF is_stale(HEARTBEAT_TIMEOUT_MINUTES)
       THEN /\ herrors' = herrors + 1
            /\ misses' = misses + 1
            /\ IF _count_missed_heartbeats >= MISSED_THRESHOLD
               THEN /\ escalations' = escalations + 1
                    /\ hstatus' = "escalated"
                    /\ UNCHANGED restart_tried
               ELSE IF _count_missed_heartbeats >= 1
               THEN /\ restart_tried' = restart_tried + 1
                    /\ hstatus' = "restarting"
                    /\ UNCHANGED escalations
               ELSE /\ hstatus' = "unhealthy"
                    /\ UNCHANGED <<restart_tried, escalations>>
            /\ hreport' = [status |-> hstatus', stale |-> TRUE]
       ELSE /\ misses' = 0
            /\ hreport' = [status |-> hstatus, stale |-> FALSE]
            /\ UNCHANGED <<hstatus, herrors, restart_tried, escalations>>
    /\ UNCHANGED <<hnow, last_heartbeat, hb_log>>
    /\ UNCHANGED nonHealth

\* AgentHealthStatus.update_heartbeat
HealthBeat ==
    /\ last_heartbeat # hnow
    /\ last_heartbeat' = hnow
    /\ hstatus' = "healthy"
    /\ herrors' = 0
    /\ misses' = 0
    /\ restart_tried' = 0
    /\ escalations' = 0
    /\ UNCHANGED <<hnow, hb_log, hreport, hsteps>>
    /\ UNCHANGED nonHealth

\* something outside the supervisor appends a line to the agent's heartbeat
\* log: nothing in the repository writes this file
HealthLogLine(e) ==
    /\ hsteps < MaxHealthSteps
    /\ hsteps' = hsteps + 1
    /\ hb_log' = [ex |-> TRUE, lines |-> Append(hb_log.lines, e)]
    /\ UNCHANGED <<hnow, last_heartbeat, hstatus, herrors, hreport, misses,
                   restart_tried, escalations>>
    /\ UNCHANGED nonHealth

\* half an hour passes
HealthTick ==
    /\ hnow < MaxHTime
    /\ hnow' = hnow + 30
    /\ UNCHANGED <<last_heartbeat, hstatus, herrors, hb_log, hreport, misses,
                   restart_tried, escalations, hsteps>>
    /\ UNCHANGED nonHealth

HealthNext ==
    \/ HealthCheckAll
    \/ HealthBeat
    \/ \E e \in {"stale", "fresh", "bad"} : HealthLogLine(e)
    \/ HealthTick

(***************************************************************************)
(* Claims about agent health                                               *)
(***************************************************************************)
\* C30: a check_all that finds no heartbeat within 60 minutes reports the
\* agent unhealthy; when consecutive check_all runs find the agent silent,
\* a restart has been attempted by the end of the run after the first miss,
\* and the failure has been escalated by the end of the run after the
\* second miss
C30_HeartbeatProtocol ==
    /\ hreport.stale => hreport.status \in {"unhealthy", "restarting", "escalated"}
    /\ misses >= 2 => restart_tried + escalations >= 1
    /\ misses >= 3 => escalations >= 1

(***************************************************************************)
(* Payment matching (payment_checker.py)                                   *)
(***************************************************************************)
MaxUnpaid == 2         \* invoices in the unpaid list

\* the unpaid invoices a list is made of
PayInvoices == [invoice_number : {"A", "B"}, client : {"c1", "c2"}, amount : {100, 104, 200}]

\* extracted payment data; "none" is None and 0 is no amount
PaymentData == [invoice_number : {"none", "A"}, client : {"none", "c1"}, amount : {0, 100}]

UnpaidLists == UNION {[1..n -> PayInvoices] : n \in 0..MaxUnpaid}

MatchQuiet ==
    /\ pay_unpaid = <<>>
    /\ payment = [invoice_number |-> "none", client |-> "none", amount |-> 0]
    /\ matched = -1

\* any short unpaid list; the first file examined yields nothing
MatchInit ==
    /\ pay_unpaid \in UnpaidLists
    /\ payment = [invoice_number |-> "none", client |-> "none", amount |-> 0]
    /\ matched = -1

\* lines 119-121: the invoice carries the extracted number
NumberMatches(inv, p) == p.invoice_number # "none" /\ inv.invoice_number = p.invoice_number

\* lines 124-134: same client and the amounts within 5% of the invoice's
AmountMatches(inv, p) ==
    /\ p.amount # 0 /\ p.client # "none" /\ inv.client = p.client
    /\ inv.amount > 0
    /\ 100 * (IF inv.amount >= p.amount THEN inv.amount - p.amount
              ELSE p.amount - inv.amount) <= 5 * inv.amount

RECURSIVE FindFrom(_, _, _)
\* the loop of _find_matching_invoice from position k on
FindFrom(unpaid_list, p, k) ==
    IF k > Len(unpaid_list) THEN 0
    ELSE IF NumberMatches(unpaid_list[k], p) THEN k
    ELSE IF AmountMatches(unpaid_list[k], p) THEN k
    ELSE FindFrom(unpaid_list, p, k + 1)

_find_matching_invoice(unpaid_list, p) == FindFrom(unpaid_list, p, 1)

\* a _find_matching_invoice call
MatchCall ==
    /\ matched = -1
    /\ matched' = _find_matching_invoice(pay_unpaid, payment)
    /\ UNCHANGED <<pay_unpaid, payment>>
    /\ UNCHANGED nonMatch

\* the next payment file is examined
MatchNewPayment(p) ==
    /\ matched # -1
    /\ payment # p
    /\ payment' = p
    /\ matched' = -1
    /\ UNCHANGED pay_unpaid
    /\ UNCHANGED nonMatch

MatchNext ==
    \/ MatchCall
    \/ \E p \in PaymentData : MatchNewPayment(p)

(***************************************************************************)
(* Claims about payment matching                                           *)
(***************************************************************************)
\* C28: when some unpaid invoice carries the payment's invoice number, the
\* invoice _find_matching_invoice returns carries it too, wherever it is in
\* the list and whatever other invoice matches by client and amount
C28_ExactNumberFirst ==
    (/\ matched # -1
     /\ \E k \in 1..Len(pay_unpaid) : NumberMatches(pay_unpaid[k], payment))
    => /\ matched # 0
       /\ NumberMatches(pay_unpaid[matched], payment)

(***************************************************************************)
(* The emailer's cycle (scripts/collections-emailer.py, scheduler.py)      *)
(***************************************************************************)
MaxDue == 22           \* invoices with a reminder due today, at most
MaxEmSteps == 3        \* batches and waits in one behaviour

sender_limit == 20     \* GraphEmailSender: `if self.sent_count >= 20`
cycle_batch_size == 20 \* main: scheduler.send_reminders(batch_size=20)

EmInitWith(n) ==
    /\ em_invoices = n
    /\ sent_count = 0
    /\ em_delivered = [i \in 1..MaxDue |-> 0]
    /\ em_result = NoResult
    /\ em_trace = <<>>

EmInit == \E n \in 0..MaxDue : EmInitWith(n)

EmQuiet == EmInitWith(0)

\* get_due_reminders on this day: one reminder per due invoice, in the
\* order of get_all_unpaid, whatever has been sent before
EmDue == [i \in 1..em_invoices |-> i]

RECURSIVE EmLoop(_, _)
\* the loop of send_reminders with GraphEmailSender.send_collection_reminder
\* as the sender: no client is paused, and the sender raises
\* RateLimitExceeded once sent_count has reached the limit
EmLoop(todo, st) ==
    IF todo = <<>> THEN st
    ELSE IF st.count >= sender_limit
    THEN [st EXCEPT !.res.rate_limited = @ + 1]
    ELSE EmLoop(Tail(todo),
                [st EXCEPT !.count = @ + 1,
                           !.deliv[Head(todo)] = @ + 1,
                           !.res.sent = @ + 1])

\* one cycle of main: scheduler.send_reminders(batch_size=20)
EmailerBatch ==
    /\ Len(em_trace) < MaxEmSteps
    /\ em_trace' = Append(em_trace, "batch")
    /\ LET todo == SubSeq(EmDue, 1, IF cycle_batch_size < Len(EmDue)
                                    THEN cycle_batch_size ELSE Len(EmDue))
           st == EmLoop(todo, [count |-> sent_count, deliv |-> em_delivered,
                               res |-> NoResult])
       IN  /\ sent_count' = st.count
           /\ em_delivered' = st.deliv
           /\ em_result' = st.res
    /\ UNCHANGED em_invoices
    /\ UNCHANGED nonEm

\* main sleeps until the next cycle: the sender keeps its count
EmailerWait ==
    /\ Len(em_trace) < MaxEmSteps
    /\ em_trace' = Append(em_trace, "wait")
    /\ UNCHANGED <<em_invoices, sent_count, em_delivered, em_result>>
    /\ UNCHANGED nonEm

EmNext ==
    \/ EmailerBatch
    \/ EmailerWait

(***************************************************************************)
(* Claims about the emailer's cycle                                        *)
(***************************************************************************)
\* C26: with 21 invoices due today and a sender that accepts 20 per cycle,
\* the first batch of size 20 returns sent = 20, rate_limited = 1 and
\* failed = 0, and the batch run after one cycle of waiting sends the
\* reminder of the 21st invoice
C26_Saturation ==
    /\ (em_invoices = 21 /\ em_trace = <<"batch">>)
          => em_result = [sent |-> 20, failed |-> 0, rate_limited |-> 1]
    /\ (em_invoices = 21 /\ em_trace = <<"batch", "wait", "batch">>)
          => em_delivered[21] = 1

(***************************************************************************)
(* The retry loop of the Graph API sender (email_sender.py)                *)
(***************************************************************************)
MaxRetryCalls == 2     \* sends in one behaviour

max_attempts == 3      \* _send_with_retry(..., max_attempts: int = 3)

\* what one session.post can end in: a response (whose truth value is what
\* `if e.response` tests; requests' Response is false when its status is an
\* error, a mock is true), a timeout, or any other exception
Responses ==
    {[kind |-> "http", code |-> 200, truthy |-> TRUE]}
    \cup [kind : {"http"}, code : {429, 401, 403, 500}, truthy : BOOLEAN]
    \cup {[kind |-> "timeout", code |-> 0, truthy |-> FALSE],
          [kind |-> "error", code |-> 0, truthy |-> FALSE]}

RtInit ==
    /\ attempt = 0
    /\ rt_posts = 0
    /\ rt_seen = <<>>
    /\ rt_waits = <<>>
    /\ rt_out = "running"
    /\ rt_calls = 1

RECURSIVE Backoff(_)
\* 2 ** attempt
Backoff(k) == IF k = 0 THEN 1 ELSE 2 * Backoff(k - 1)

\* status_code = e.response.status_code if e.response else 0
StatusCode(r) == IF r.truthy THEN r.code ELSE 0

\* the body of the loop for one answer r at attempt k: how it leaves the
\* iteration ("running": on to the next one) and how long it slept
Iteration(r, k) ==
    LET last == k = max_attempts - 1
    IN  IF r.kind = "http" /\ r.code = 200
        THEN [out |-> "sent", wait |-> 0]
        ELSE IF r.kind = "http"
        THEN IF StatusCode(r) = 429
             THEN IF ~last
                  THEN [out |-> "running", wait |-> Backoff(k)]
                  ELSE [out |-> "running", wait |-> 0]
             ELSE IF StatusCode(r) = 401
             THEN [out |-> "Authentication failed", wait |-> 0]
             ELSE IF StatusCode(r) = 403
             THEN [out |-> "Permission denied", wait |-> 0]
             ELSE IF last
                  THEN [out |-> "Failed to send email after 3 attempts", wait |-> 0]
                  ELSE [out |-> "running", wait |-> 0]
        ELSE IF r.kind = "timeout"
        THEN IF last
             THEN [out |-> "Email sending timed out after 3 attempts", wait |-> 0]
             ELSE [out |-> "running", wait |-> Backoff(k)]
        ELSE IF last
             THEN [out |-> "unexpected error", wait |-> 0]
             ELSE [out |-> "running", wait |-> Backoff(k)]

\* one iteration of `for attempt in range(max_attempts)`; an iteration that
\* leaves the last attempt without return or raise reaches the raise after
\* the loop
RetryAttempt(r) ==
    /\ rt_out = "running"
    /\ attempt < max_attempts
    /\ LET it == Iteration(r, attempt)
       IN  /\ rt_posts' = rt_posts + 1
           /\ rt_seen' = Append(rt_seen, r)
           /\ rt_waits' = Append(rt_waits, it.wait)
           /\ attempt' = attempt + 1
           /\ rt_out' = IF it.out = "running" /\ attempt = max_attempts - 1
                        THEN "Email sending failed after 3 attempts"
                        ELSE it.out
    /\ UNCHANGED rt_calls
    /\ UNCHANGED nonRetry

\* send_email is called again: a new _send_with_retry starts
RetryCall ==
    /\ rt_out # "running"
    /\ rt_calls < MaxRetryCalls
    /\ rt_calls' = rt_calls + 1
    /\ attempt' = 0
    /\ rt_posts' = 0
    /\ rt_seen' = <<>>
    /\ rt_waits' = <<>>
    /\ rt_out' = "running"
    /\ UNCHANGED nonRetry

RetryNext ==
    \/ \E r \in Responses : RetryAttempt(r)
    \/ RetryCall

\* C35: a send makes at most 3 POST attempts; attempt k (0-based) answered
\* with 429 is followed by a sleep of 2^k seconds, so three 429 answers give
\* sleeps of 1, 2 and 4 seconds and then an error whose message contains
\* "Failed to send email"; a 401 or 403 answer raises at once, no retry
C35_RetryLoop ==
    /\ rt_posts <= max_attempts
    /\ \A i \in 1..Len(rt_seen) :
          /\ (rt_seen[i].kind = "http" /\ rt_seen[i].code = 429)
                => rt_waits[i] = Backoff(i - 1)
          /\ (rt_seen[i].kind = "http" /\ rt_seen[i].code \in {401, 403})
                => /\ i = Len(rt_seen)
                   /\ rt_out \in {"Authentication failed", "Permission denied"}
    /\ (/\ Len(rt_seen) = max_attempts
        /\ \A i \in 1..Len(rt_seen) :
              rt_seen[i].kind = "http" /\ rt_seen[i].code = 429)
       => rt_out = "Failed to send email after 3 attempts"

(***************************************************************************)
(* The payment watcher's handler (payment_detector.py, payment_checker.py) *)
(***************************************************************************)
MaxPdCalls == 3        \* files detected in one behaviour
MaxPdTicks == 3        \* half days the clock advances

recent_window == 86400 \* _is_duplicate: `if age < 86400`
HalfDay == recent_window \div 2

\* a payment file is told apart by its content hash; its name yields the
\* payment data _extract_payment_data reads from it
PdFiles == PaymentData

\* where processing can raise: nowhere, inside check_confidence, inside
\* state.mark_paid (before it changes anything), inside state.archive_invoice
PdFaults == {"none", "check", "mark_paid", "archive"}

PdInit ==
    /\ pd_now = 0
    /\ recent_files = [f \in PdFiles |-> -1]
    /\ pd_unpaid = << [invoice_number |-> "A", client |-> "c1", amount |-> 100],
                      [invoice_number |-> "B", client |-> "c1", amount |-> 200] >>
    /\ pd_events = <<>>
    /\ pd_notified = {}
    /\ pd_logged = <<>>
    /\ pd_trace = <<>>

\* lines 104-107: the file is in recent_files and younger than 24 hours
IsDuplicateFile(f) ==
    recent_files[f] # -1 /\ pd_now - recent_files[f] < recent_window

\* _verify_amount, as a percentage; a payment amount of 0 is None
_verify_amount(payment_amount, invoice_amount) ==
    IF payment_amount = 0 THEN 0
    ELSE IF payment_amount = invoice_amount THEN 100
    ELSE IF payment_amount < invoice_amount THEN 95
    ELSE 90

\* PaymentConfidenceChecker.__call__ for the data p of a file: matches_invoice
\* is true whenever an invoice was found, whatever _verify_amount answered
check_confidence(p) ==
    LET k == _find_matching_invoice(pd_unpaid, p)
    IN  IF k # 0
        THEN [matches_invoice |-> TRUE, at |-> k,
              invoice_number |-> pd_unpaid[k].invoice_number,
              confidence |-> _verify_amount(p.amount, pd_unpaid[k].amount)]
        ELSE [matches_invoice |-> FALSE, at |-> 0,
              invoice_number |-> "none", confidence |-> 0]

\* the unpaid list without its k-th invoice
WithoutAt(sq, k) == SubSeq(sq, 1, k - 1) \o SubSeq(sq, k + 1, Len(sq))

\* _process_payment_file for the file f, raising where `fault` says
ProcessPaymentFile(f, fault) ==
    /\ Len(pd_trace) < MaxPdCalls
    /\ IF IsDuplicateFile(f)
       THEN /\ pd_trace' = Append(pd_trace, [file |-> f, res |-> "duplicate", at |-> pd_now,
                                             marked |-> "none", confidence |-> 0])
            /\ UNCHANGED <<recent_files, pd_unpaid, pd_events, pd_notified, pd_logged>>
       ELSE LET pd == check_confidence(f)
                res == IF fault = "check" THEN "error"
                       ELSE IF ~pd.matches_invoice THEN "no_match"
                       ELSE IF fault \in {"mark_paid", "archive"} THEN "error"
                       ELSE "paid"
                marks == fault # "check" /\ pd.matches_invoice /\ fault # "mark_paid"
            IN  /\ recent_files' = [recent_files EXCEPT ![f] = pd_now]
                /\ pd_trace' = Append(pd_trace,
                      [file |-> f, res |-> res, at |-> pd_now,
                       marked |-> IF marks THEN pd.invoice_number ELSE "none",
                       confidence |-> IF marks THEN pd.confidence ELSE 0])
                /\ pd_unpaid' = IF marks THEN WithoutAt(pd_unpaid, pd.at) ELSE pd_unpaid
                /\ pd_events' = IF marks
                                THEN pd_events \o
                                     << [invoice |-> pd.invoice_number, ev |-> "state_update"],
                                        [invoice |-> pd.invoice_number, ev |-> "paid"] >>
                                ELSE pd_events
                /\ pd_notified' = IF res = "paid"
                                  THEN pd_notified \cup {pd.invoice_number}
                                  ELSE pd_notified
                /\ pd_logged' = pd_logged \o
                                << "info",
                                   CASE res = "error" -> "error"
                                     [] res = "no_match" -> "warning"
                                     [] OTHER -> "info" >>
    /\ UNCHANGED pd_now
    /\ UNCHANGED nonPd

\* half a day passes
PdTick ==
    /\ pd_now < MaxPdTicks * HalfDay
    /\ pd_now' = pd_now + HalfDay
    /\ UNCHANGED <<recent_files, pd_unpaid, pd_events, pd_notified, pd_logged, pd_trace>>
    /\ UNCHANGED nonPd

PdNext ==
    \/ \E f \in PdFiles, fault \in PdFaults : ProcessPaymentFile(f, fault)
    \/ PdTick

(***************************************************************************)
(* Claims about the payment handler                                        *)
(***************************************************************************)
\* the processing of a file ended without an exception
PdSucceeded(e) == e.res \in {"paid", "no_match"}

\* C37: a payment file is recorded as seen only once its processing has
\* succeeded: a detection is skipped as a duplicate only when an earlier
\* detection of the same file, less than 24 hours before, was processed
\* successfully, so a file whose processing failed is processed again
C37_SeenOnlyAfterSuccess ==
    /\ \A f \in PdFiles :
          recent_files[f] # -1 =>
              \E i \in 1..Len(pd_trace) : pd_trace[i].file = f /\ PdSucceeded(pd_trace[i])
    /\ \A i \in 1..Len(pd_trace) :
          pd_trace[i].res = "duplicate" =>
              \E j \in 1..(i - 1) :
                  /\ pd_trace[j].file = pd_trace[i].file
                  /\ PdSucceeded(pd_trace[j])
                  /\ pd_trace[i].at - pd_trace[j].at < recent_window

\* C38: the handler calls mark_paid only for a payment the amount check
\* accepted (a score above 0): a payment without an amount, or with an
\* amount out of tolerance, never marks an invoice paid
C38_PaidOnlyIfAmountAccepted ==
    \A i \in 1..Len(pd_trace) :
        pd_trace[i].marked # "none" =>
            /\ pd_trace[i].confidence > 0
            /\ pd_trace[i].file.amount # 0

\* C32: no error is dropped silently: every processing of a payment file
\* that failed has left a `failed` event on the event log (the handler has
\* nothing that escalates; its only other output is its logger)
C32_NoSilentFailure ==
    \A i \in 1..Len(pd_trace) :
        pd_trace[i].res = "error" =>
            \E j \in 1..Len(pd_events) : pd_events[j].ev = "failed"

(***************************************************************************)
(* Specifications                                                          *)
(***************************************************************************)
Init == StoreInit /\ LimInit /\ ValQuiet /\ SchedQuiet /\ MqInit /\ LedgerInit /\ ReadInit /\ BooksInit /\ HealthInit /\ MatchQuiet /\ EmQuiet /\ RtInit /\ PdInit

\* the store under concurrent callers
Next == StoreNext
Spec == Init /\ [][Next]_vars

\* the store under one caller at a time, with I/O failures and crashes
SpecSeq == Init /\ [][SeqNext]_vars

\* the rate limiter under parallel callers
InitLimiter == StoreQuiet /\ LimInit /\ ValQuiet /\ SchedQuiet /\ MqInit /\ LedgerInit /\ ReadInit /\ BooksInit /\ HealthInit /\ MatchQuiet /\ EmQuiet /\ RtInit /\ PdInit
SpecLimiter == InitLimiter /\ [][LimNext]_vars

\* the token validator, one call at a time
InitValidator == StoreQuiet /\ LimInit /\ ValInit /\ SchedQuiet /\ MqInit /\ LedgerInit /\ ReadInit /\ BooksInit /\ HealthInit /\ MatchQuiet /\ EmQuiet /\ RtInit /\ PdInit
SpecValidator == InitValidator /\ [][ValNext]_vars

\* the reminder scheduler, run after run
InitScheduler == StoreQuiet /\ LimInit /\ ValQuiet /\ SchedInit /\ MqInit /\ LedgerInit /\ ReadInit /\ BooksInit /\ HealthInit /\ MatchQuiet /\ EmQuiet /\ RtInit /\ PdInit
SpecScheduler == InitScheduler /\ [][SchedNext]_vars

\* the message queue of one recipient under two agents
InitMQ == StoreQuiet /\ LimInit /\ ValQuiet /\ SchedQuiet /\ MqInit /\ LedgerInit /\ ReadInit /\ BooksInit /\ HealthInit /\ MatchQuiet /\ EmQuiet /\ RtInit /\ PdInit
SpecMQ == InitMQ /\ [][MqNext]_vars

\* the ledger under one Ledger object at a time, with restarts
InitLedger == StoreQuiet /\ LimInit /\ ValQuiet /\ SchedQuiet /\ MqInit /\ LedgerInit /\ ReadInit /\ BooksInit /\ HealthInit /\ MatchQuiet /\ EmQuiet /\ RtInit /\ PdInit
SpecLedger == InitLedger /\ [][LedgerNext]_vars

\* read_state over one state file and its backup
InitRead == StoreQuiet /\ LimInit /\ ValQuiet /\ SchedQuiet /\ MqInit /\ LedgerInit /\ ReadInit /\ BooksInit /\ HealthInit /\ MatchQuiet /\ EmQuiet /\ RtInit /\ PdInit
SpecRead == InitRead /\ [][ReadNext]_vars

\* the state records and the ledger under payments and reconciliation
InitBooks == StoreQuiet /\ LimInit /\ ValQuiet /\ SchedQuiet /\ MqInit /\ LedgerInit /\ ReadInit /\ BooksInit /\ HealthInit /\ MatchQuiet /\ EmQuiet /\ RtInit /\ PdInit
SpecBooks == InitBooks /\ [][BooksNext]_vars

\* the scheduler over invoices that reach the escalation rule
InitOverdue == StoreQuiet /\ LimInit /\ ValQuiet /\ SchedOverdue /\ MqInit /\ LedgerInit /\ ReadInit /\ BooksInit /\ HealthInit /\ MatchQuiet /\ EmQuiet /\ RtInit /\ PdInit
SpecOverdue == InitOverdue /\ [][SchedNext]_vars

\* the scheduler on the day the first reminder is due
SpecBatch == InitScheduler /\ [][SchedToday]_vars

\* the supervisor's health checks of one agent
InitHealth == StoreQuiet /\ LimInit /\ ValQuiet /\ SchedQuiet /\ MqInit /\ LedgerInit /\ ReadInit /\ BooksInit /\ HealthInit /\ MatchQuiet /\ EmQuiet /\ RtInit /\ PdInit
SpecHealth == InitHealth /\ [][HealthNext]_vars

\* _find_matching_invoice over every short unpaid list and payment
InitMatch == StoreQuiet /\ LimInit /\ ValQuiet /\ SchedQuiet /\ MqInit /\ LedgerInit /\ ReadInit /\ BooksInit /\ HealthInit /\ MatchInit /\ EmQuiet /\ RtInit /\ PdInit
SpecMatch == InitMatch /\ [][MatchNext]_vars

\* the emailer's cycles with the script's sender
InitEmailer == StoreQuiet /\ LimInit /\ ValQuiet /\ SchedQuiet /\ MqInit /\ LedgerInit /\ ReadInit /\ BooksInit /\ HealthInit /\ MatchQuiet /\ EmInit /\ RtInit /\ PdInit
SpecEmailer == InitEmailer /\ [][EmNext]_vars

InitRetry == StoreQuiet /\ LimInit /\ ValQuiet /\ SchedQuiet /\ MqInit /\ LedgerInit /\ ReadInit /\ BooksInit /\ HealthInit /\ MatchQuiet /\ EmQuiet /\ RtInit /\ PdInit

SpecRetry == InitRetry /\ [][RetryNext]_vars

InitDetector == StoreQuiet /\ LimInit /\ ValQuiet /\ SchedQuiet /\ MqInit /\ LedgerInit /\ ReadInit /\ BooksInit /\ HealthInit /\ MatchQuiet /\ EmQuiet /\ RtInit /\ PdInit

SpecDetector == InitDetector /\ [][PdNext]_vars

====
